---- MODULE Spec2Model ----
(***************************************************************************)
(* superfast-copy-util: the parallel directory scanner (scanner/scanner.go) *)
(* and the parallel copy engine (copier/copier.go) as state machines.       *)
(* Goroutines are processes with a program counter; channels are bounded    *)
(* sequences with a closed flag; a send on a closed channel panics and a    *)
(* panic ends the process (no goroutine takes another step).                *)
(***************************************************************************)
EXTENDS Integers, Sequences, FiniteSets, Bags, TLC

(***************************************************************************)
(* Bounds of the model.                                                     *)
(***************************************************************************)
\* scan worker counts 1..MaxScanWorkers (SCANNER_CONCURRENCY)
MaxScanWorkers == 2
\* directory-queue depths 1..MaxDirBuf (SCANNER_DIRBUF)
MaxDirBuf == 1
\* capacity of the scanner's file stream (SCANNER_FILES_BUF)
FilesBuf == 1
\* capacity of the scanner's error stream (SCANNER_ERR_BUF)
ErrBuf == 1
\* capacity of the scanner's progress stream (SCANNER_PROGRESS_BUF)
ProgressBuf == 1
\* copy worker counts 1..MaxCopyWorkers (Copier.workerCount)
MaxCopyWorkers == 2
\* bytes a copy worker's buffer holds (Copier.bufferSize)
BufSize == 2
\* capacity of the copier's result stream
ResultBuf == 1
\* capacity of the copier's progress stream
CopyProgressBuf == 1
\* steps of one copy run in which a file-system operation fails
MaxFaults == 1
\* longest path handed to copySingleFile, in components
MaxDepth == 2
\* largest TotalFiles of a snapshot
MaxTotal == 3
\* longest time since startTime at a snapshot, in units of 1/UnitsPerSecond s
MaxElapsed == 6

(***************************************************************************)
(* Directory trees.  Directories are 1..n with 1 the root, files are        *)
(* numbered; entries[d] is what os.ReadDir(d) returns, in its order.        *)
(* content[f] is the byte content of file f.                                *)
(***************************************************************************)
D(d) == [isDir |-> TRUE, id |-> d]
F(f) == [isDir |-> FALSE, id |-> f]

\* /src: x.txt (3 bytes), sub/y.txt (0 bytes), sub/empty/ (spec section 8)
TreeExample ==
  [entries |-> << <<F(1), D(2)>>, <<D(3), F(2)>>, << >> >>,
   content |-> << <<1, 2, 3>>, << >> >>]
\* a root holding two subdirectories around a file
TreeWide ==
  [entries |-> << <<D(2), F(1), D(3)>>, << >>, <<F(2)>> >>,
   content |-> << <<1, 2>>, <<3>> >>]
\* a/b/ with no file at all
TreeNoFiles ==
  [entries |-> << <<D(2)>>, <<D(3)>>, << >> >>,
   content |-> << >>]
\* a single directory of files
TreeFlat ==
  [entries |-> << <<F(1), F(2)>> >>,
   content |-> << <<1>>, <<2, 3, 4>> >>]
\* sub/z.txt (1 byte)
TreeNested ==
  [entries |-> << <<D(2)>>, <<F(1)>> >>,
   content |-> << <<1>> >>]
\* sub/s.txt (empty) listed ahead of r.txt (1 byte)
TreeRace ==
  [entries |-> << <<D(2), F(1)>>, <<F(2)>> >>,
   content |-> << <<1>>, << >> >>]

Trees == {TreeExample, TreeWide, TreeNoFiles, TreeFlat}
\* the source trees of the copy runs
CopyTrees == {TreeExample, TreeNoFiles}

DirsOf(t) == 1..Len(t.entries)
FilesOf(t) == 1..Len(t.content)
Root == 1
\* every directory entry of the tree
EntriesOf(t) == {D(d) : d \in DirsOf(t)} \cup {F(f) : f \in FilesOf(t)}

VARIABLES
  tree,         \* the directory tree under the source root
  \* ---- scanner.Scanner
  concurrency,  \* Scanner.concurrency
  dirBuf,       \* capacity of dirCh
  collectSize,  \* SCANNER_COLLECT_SIZE
  sCanceled,    \* Scanner.canceled
  totalFiles,   \* Scanner.totalFiles (atomic)
  dirCh,        \* the directory queue
  dirChClosed,
  dirWG,        \* the pending-count
  workers,      \* the scan worker pool: a bag of [pc, dir, idx], one copy per
                \* worker goroutine (position, directory, entry index)
  closerPc,     \* the goroutine of lines 90-93
  smainPc,      \* the goroutine of ScanDirectory
  sdone,        \* the done channel is closed
  smonPc, smonSnap, \* Scanner.monitorProgress
  sProgressCh, sFilesCh, sErrCh,
  sProgressClosed, sFilesClosed, sErrClosed,
  spanicked,    \* a goroutine of the scan panicked
  \* ---- history of the scan
  emitted,      \* directory entry -> number of FileInfo sent for it on filesCh
  failedDirs,   \* directories whose listing failed
  statFailed,   \* files whose Lstat failed
  sLastSent,    \* the snapshot last put on the progress stream
  \* ---- copier.Copier
  files,        \* the list handed to CopyFilesParallel
  workerCount,  \* Copier.workerCount
  cCanceled,    \* Copier.canceled
  progress,     \* Copier.progress, guarded by progressMux
  fileChan, fileChanClosed,
  copiers,      \* the copy worker pool: a bag of [pc, file, pos, ok, size, cause],
                \* one copy per worker goroutine
  cmainPc,      \* the goroutine of CopyFilesParallel
  feedIdx,      \* its position in the loop of lines 127-129
  cdone,        \* the done channel is closed
  cmonPc, cmonSnap, \* Copier.monitorProgress
  cProgressCh, cResultCh,
  cErrCh,       \* Copier.errCh: no statement of the copier sends on it
  cProgressClosed, cResultClosed, cErrClosed,
  cpanicked,    \* a goroutine of the copy run panicked
  dstDirs,      \* source directories whose mirror exists under the target
  dstContent,   \* destination file -> its content, for the files that exist
  \* ---- history of the copy run
  resultsSent,  \* file -> number of CopyResults sent for it
  okSent,       \* number of CopyResults sent with Success = true
  faults,       \* steps of the run in which a file-system operation failed
  finalSent,    \* sendFinalProgress put its snapshot on the stream
  \* ---- ui.Model (the scan-then-copy page of the TUI)
  uiPage,       \* Model.page
  uiScanning,   \* Model.isScanning
  uiCopying,    \* Model.isCopying
  mfiles,       \* Model.files; in the command-line program the local list
                \* files of CopyManager.copyFiles
  uiWatch,      \* the streams a watch command of the TUI is reading
  \* ---- one call of Copier.copySingleFile on an arbitrary path
  single,       \* [pc, sourceDir, targetDir, srcPath, dstPath, made, written,
                \* ok, cause]
  \* ---- one CopyProgress snapshot being built
  sample        \* [pc, progress, elapsed, snap]

scanVars ==
  <<concurrency, dirBuf, collectSize, sCanceled, totalFiles, dirCh,
    dirChClosed, dirWG, workers, closerPc, smainPc, sdone, smonPc,
    smonSnap, sProgressCh, sFilesCh, sErrCh, sProgressClosed, sFilesClosed,
    sErrClosed, spanicked, emitted, failedDirs, statFailed, sLastSent>>

copyVars ==
  <<files, workerCount, cCanceled, progress, fileChan, fileChanClosed,
    copiers, cmainPc, feedIdx, cdone, cmonPc, cmonSnap, cProgressCh,
    cResultCh, cErrCh, cProgressClosed, cResultClosed, cErrClosed, cpanicked,
    dstDirs, dstContent, resultsSent, okSent, faults, finalSent>>

uiVars == <<uiPage, uiScanning, uiCopying, mfiles, uiWatch>>

vars == <<tree, scanVars, copyVars, uiVars, single, sample>>

\* a scan worker about to receive from dirCh
ScanWorkerStart == [pc |-> "recv", dir |-> 0, idx |-> 0]
\* the local states of the scan workers
ScanWorkers == BagToSet(workers)
\* one worker in local state s moves to local state t
Move(pool, s, t) == (pool (-) SetToBag({s})) (+) SetToBag({t})

\* select { case ch <- v: default: } on an open channel of capacity cap
TrySend(ch, cap, v) == IF Len(ch) < cap THEN Append(ch, v) ELSE ch

(***************************************************************************)
(* The tree as the copier sees it.                                          *)
(***************************************************************************)
\* the directory holding file f
DirOfFile(t, f) ==
  CHOOSE d \in DirsOf(t) : \E i \in 1..Len(t.entries[d]) : t.entries[d][i] = F(f)
\* the directory holding directory d (0 for the root)
ParentOf(t, d) ==
  IF d = Root THEN 0
  ELSE CHOOSE q \in DirsOf(t) : \E i \in 1..Len(t.entries[q]) : t.entries[q][i] = D(d)
\* os.MkdirAll(d): d and every directory above it
RECURSIVE PathTo(_, _)
PathTo(t, d) == IF d = Root THEN {Root} ELSE {d} \cup PathTo(t, ParentOf(t, d))
\* info.Size()
SizeOf(t, f) == Len(t.content[f])
RECURSIVE SumSizes(_, _)
SumSizes(t, fs) ==
  IF fs = {} THEN 0
  ELSE LET f == CHOOSE x \in fs : TRUE IN SizeOf(t, f) + SumSizes(t, fs \ {f})
\* the sets of directories a walk of the source tree can leave created:
\* closed under MkdirAll, all of them when nothing fails
WalkOutcomes(t) == {m \in SUBSET DirsOf(t) : \A d \in m : PathTo(t, d) \subseteq m}
\* the file lists a scan of the tree can collect: every file once, in any
\* order of discovery, or nothing
FileLists(t) ==
  {l \in [1..Len(t.content) -> FilesOf(t)] :
      \A i, j \in 1..Len(t.content) : l[i] = l[j] => i = j} \cup {<< >>}
Range(q) == {q[i] : i \in 1..Len(q)}

ZeroProgress ==
  [CompletedFiles |-> 0, CompletedSize |-> 0, TotalFiles |-> 0,
   TotalSize |-> 0, FailedFiles |-> 0]

\* a copy worker about to receive from fileChan
CopyWorkerStart ==
  [pc |-> "recv", file |-> 0, pos |-> 0, ok |-> FALSE, size |-> 0, cause |-> ""]
\* a copy worker that returned (defer wg.Done)
CopyWorkerExit ==
  [pc |-> "exit", file |-> 0, pos |-> 0, ok |-> FALSE, size |-> 0, cause |-> ""]
\* the local states of the copy workers
CopyWorkers == BagToSet(copiers)

\* no call of copySingleFile is under way
SingleIdle == [pc |-> "idle"]
\* no snapshot is being built
SampleIdle == [pc |-> "idle"]

\* a Scanner on which ScanDirectory has not been called
ScanIdle ==
  /\ concurrency = 1
  /\ dirBuf = 1
  /\ collectSize = FALSE
  /\ sCanceled = FALSE
  /\ totalFiles = 0
  /\ dirCh = << >>
  /\ dirChClosed = FALSE
  /\ dirWG = 0
  /\ workers = EmptyBag
  /\ closerPc = "off"
  /\ smainPc = "off"
  /\ sdone = FALSE
  /\ smonPc = "off"
  /\ smonSnap = 0
  /\ sProgressCh = << >>
  /\ sFilesCh = << >>
  /\ sErrCh = << >>
  /\ sProgressClosed = FALSE
  /\ sFilesClosed = FALSE
  /\ sErrClosed = FALSE
  /\ spanicked = FALSE
  /\ emitted = [e \in EntriesOf(tree) |-> 0]
  /\ failedDirs = {}
  /\ statFailed = {}
  /\ sLastSent = 0

\* a Copier as NewCopier returns it (copier.go 55-78), over no file list
CopyIdle ==
  /\ files = << >>
  /\ workerCount = 1
  /\ cCanceled = FALSE
  /\ progress = ZeroProgress
  /\ fileChan = << >>
  /\ fileChanClosed = FALSE
  /\ copiers = EmptyBag
  /\ cmainPc = "off"
  /\ feedIdx = 0
  /\ cdone = FALSE
  /\ cmonPc = "off"
  /\ cmonSnap = ZeroProgress
  /\ cProgressCh = << >>
  /\ cResultCh = << >>
  /\ cErrCh = << >>
  /\ cProgressClosed = FALSE
  /\ cResultClosed = FALSE
  /\ cErrClosed = FALSE
  /\ cpanicked = FALSE
  /\ dstDirs = {}
  /\ dstContent = << >>
  /\ resultsSent = [f \in FilesOf(tree) |-> 0]
  /\ okSent = 0
  /\ finalSent = FALSE

\* a Model that started no scan: the file panels (page 0)
UiIdle ==
  /\ uiPage = 0
  /\ uiScanning = FALSE
  /\ uiCopying = FALSE
  /\ mfiles = << >>
  /\ uiWatch = {}

\* a Scanner on which ScanDirectory was just called (scanner.go 44-64, 67-101)
ScanStarted ==
  /\ concurrency \in 1..MaxScanWorkers
  /\ dirBuf \in 1..MaxDirBuf
  /\ collectSize \in BOOLEAN
  /\ sCanceled = FALSE
  /\ totalFiles = 0
  /\ dirCh = << >>
  /\ dirChClosed = FALSE
  /\ dirWG = 1
  /\ workers = [s \in {ScanWorkerStart} |-> concurrency]
  /\ closerPc = "wait"
  /\ smainPc = "pushroot"
  /\ sdone = FALSE
  /\ smonPc = "select"
  /\ smonSnap = 0
  /\ sProgressCh = << >>
  /\ sFilesCh = << >>
  /\ sErrCh = << >>
  /\ sProgressClosed = FALSE
  /\ sFilesClosed = FALSE
  /\ sErrClosed = FALSE
  /\ spanicked = FALSE
  /\ emitted = [e \in EntriesOf(tree) |-> 0]
  /\ failedDirs = {}
  /\ statFailed = {}
  /\ sLastSent = 0

ScanInit ==
  /\ tree \in Trees
  /\ CopyIdle
  /\ faults = 0
  /\ UiIdle
  /\ single = SingleIdle
  /\ sample = SampleIdle
  /\ ScanStarted

\* what no step of a scan changes: its configuration, and the copier
sCfg == <<tree, concurrency, dirBuf, collectSize, copyVars, uiVars, single, sample>>
sQueue == <<dirCh, dirChClosed, dirWG>>
sMain == <<closerPc, smainPc, sdone>>
sMon == <<smonPc, smonSnap>>
sChans == <<sProgressCh, sFilesCh, sErrCh>>
sClosed == <<sProgressClosed, sFilesClosed, sErrClosed>>
sHist == <<emitted, failedDirs, statFailed, sLastSent>>

Entries(d) == tree.entries[d]
CurEntry(s) == Entries(s.dir)[s.idx]

(***************************************************************************)
(* Scan worker, scanner.go 102-161.  s is the worker's local state.         *)
(***************************************************************************)
\* for dir := range dirCh: take a directory, or leave when the queue is
\* closed and drained (defer workers.Done)
ScanWorkerRecv(s) ==
  /\ ~spanicked
  /\ s.pc = "recv"
  /\ \/ /\ dirCh # << >>
        /\ dirCh' = Tail(dirCh)
        /\ workers' = Move(workers, s, [s EXCEPT !.pc = "list", !.dir = Head(dirCh)])
     \/ /\ dirCh = << >>
        /\ dirChClosed
        /\ workers' = Move(workers, s, [s EXCEPT !.pc = "exit", !.dir = 0, !.idx = 0])
        /\ UNCHANGED dirCh
  /\ UNCHANGED <<sCfg, dirChClosed, dirWG, sMain, sMon, sChans, sClosed,
                 sHist, sCanceled, totalFiles, spanicked>>

\* ScanWorkerList without the check of lines 105-109: a directory taken
\* under cancellation is listed like any other
ScanWorkerListUnchecked(s) ==
  /\ ~spanicked
  /\ s.pc = "list"
  /\ \/ /\ sErrCh' = TrySend(sErrCh, ErrBuf, "err")
        /\ failedDirs' = failedDirs \cup {s.dir}
        /\ dirWG' = dirWG - 1
        /\ workers' = Move(workers, s, ScanWorkerStart)
     \/ /\ workers' = Move(workers, s, [s EXCEPT !.pc = "entry", !.idx = 1])
        /\ UNCHANGED <<sErrCh, failedDirs, dirWG>>
  /\ UNCHANGED <<sCfg, dirCh, dirChClosed, sMain, sMon, sProgressCh,
                 sFilesCh, sClosed, emitted, statFailed, sLastSent, sCanceled, totalFiles,
                 spanicked>>

\* lines 105-118: a directory taken under cancellation is only marked done;
\* otherwise os.ReadDir lists it, and a failure is offered to errCh without
\* blocking, the directory is marked done and nothing of it is visited
ScanWorkerList(s) ==
  /\ ~spanicked
  /\ s.pc = "list"
  /\ IF sCanceled
       THEN /\ dirWG' = dirWG - 1
            /\ workers' = Move(workers, s, ScanWorkerStart)
            /\ UNCHANGED <<sErrCh, failedDirs>>
       ELSE \/ /\ sErrCh' = TrySend(sErrCh, ErrBuf, "err")
               /\ failedDirs' = failedDirs \cup {s.dir}
               /\ dirWG' = dirWG - 1
               /\ workers' = Move(workers, s, ScanWorkerStart)
            \/ /\ workers' = Move(workers, s, [s EXCEPT !.pc = "entry", !.idx = 1])
               /\ UNCHANGED <<sErrCh, failedDirs, dirWG>>
  /\ UNCHANGED <<sCfg, dirCh, dirChClosed, sMain, sMon, sProgressCh,
                 sFilesCh, sClosed, emitted, statFailed, sLastSent, sCanceled, totalFiles,
                 spanicked>>

\* ScanWorkerEntry without the dirWG.Add(1) of line 127: a subdirectory is
\* pushed without having been counted
ScanWorkerEntryNoAdd(s) ==
  /\ ~spanicked
  /\ s.pc = "entry"
  /\ IF s.idx > Len(Entries(s.dir)) \/ sCanceled
       THEN \* the loop ends (or breaks on cancellation): dirWG.Done
            /\ dirWG' = dirWG - 1
            /\ workers' = Move(workers, s, ScanWorkerStart)
            /\ UNCHANGED <<totalFiles, sErrCh, statFailed>>
       ELSE IF CurEntry(s).isDir
         THEN /\ workers' = Move(workers, s, [s EXCEPT !.pc = "push"])
              /\ UNCHANGED <<dirWG, totalFiles, sErrCh, statFailed>>
         ELSE \/ \* os.Lstat fails (only looked up when collectSize)
                 /\ collectSize
                 /\ sErrCh' = TrySend(sErrCh, ErrBuf, "err")
                 /\ statFailed' = statFailed \cup {CurEntry(s).id}
                 /\ workers' = Move(workers, s, [s EXCEPT !.idx = @ + 1])
                 /\ UNCHANGED <<dirWG, totalFiles>>
              \/ \* the file is counted
                 /\ totalFiles' = totalFiles + 1
                 /\ workers' = Move(workers, s, [s EXCEPT !.pc = "emit"])
                 /\ UNCHANGED <<dirWG, sErrCh, statFailed>>
  /\ UNCHANGED <<sCfg, dirCh, dirChClosed, sMain, sMon, sProgressCh,
                 sFilesCh, sClosed, emitted, failedDirs, sLastSent, sCanceled, spanicked>>

\* lines 120-150 and 158-159: one turn of the entry loop up to the point
\* where the worker is about to send
ScanWorkerEntry(s) ==
  /\ ~spanicked
  /\ s.pc = "entry"
  /\ IF s.idx > Len(Entries(s.dir)) \/ sCanceled
       THEN \* the loop ends (or breaks on cancellation): dirWG.Done
            /\ dirWG' = dirWG - 1
            /\ workers' = Move(workers, s, ScanWorkerStart)
            /\ UNCHANGED <<totalFiles, sErrCh, statFailed>>
       ELSE IF CurEntry(s).isDir
         THEN \* dirWG.Add(1), then the blocking push
              /\ dirWG' = dirWG + 1
              /\ workers' = Move(workers, s, [s EXCEPT !.pc = "push"])
              /\ UNCHANGED <<totalFiles, sErrCh, statFailed>>
         ELSE \/ \* os.Lstat fails (only looked up when collectSize)
                 /\ collectSize
                 /\ sErrCh' = TrySend(sErrCh, ErrBuf, "err")
                 /\ statFailed' = statFailed \cup {CurEntry(s).id}
                 /\ workers' = Move(workers, s, [s EXCEPT !.idx = @ + 1])
                 /\ UNCHANGED <<dirWG, totalFiles>>
              \/ \* the file is counted
                 /\ totalFiles' = totalFiles + 1
                 /\ workers' = Move(workers, s, [s EXCEPT !.pc = "emit"])
                 /\ UNCHANGED <<dirWG, sErrCh, statFailed>>
  /\ UNCHANGED <<sCfg, dirCh, dirChClosed, sMain, sMon, sProgressCh,
                 sFilesCh, sClosed, emitted, failedDirs, sLastSent, sCanceled, spanicked>>

\* line 153: the flag is read once more before the file is sent
ScanWorkerEmit(s) ==
  /\ ~spanicked
  /\ s.pc = "emit"
  /\ workers' = Move(workers, s,
                     IF sCanceled THEN [s EXCEPT !.pc = "entry", !.idx = @ + 1]
                                  ELSE [s EXCEPT !.pc = "send"])
  /\ UNCHANGED <<sCfg, sQueue, sMain, sMon, sChans, sClosed, sHist,
                 sCanceled, totalFiles, spanicked>>

\* line 154: s.filesCh <- fileInfo blocks while the stream is full
ScanWorkerSend(s) ==
  /\ ~spanicked
  /\ s.pc = "send"
  /\ IF sFilesClosed
       THEN /\ spanicked' = TRUE
            /\ UNCHANGED <<sFilesCh, emitted, workers>>
       ELSE /\ Len(sFilesCh) < FilesBuf
            /\ sFilesCh' = Append(sFilesCh, CurEntry(s))
            /\ emitted' = [emitted EXCEPT ![CurEntry(s)] = @ + 1]
            /\ workers' = Move(workers, s, [s EXCEPT !.pc = "entry", !.idx = @ + 1])
            /\ UNCHANGED spanicked
  /\ UNCHANGED <<sCfg, sQueue, sMain, sMon, sProgressCh, sErrCh, sClosed,
                 failedDirs, statFailed, sLastSent, sCanceled, totalFiles>>

\* ScanWorkerPush without the continue of line 129: the worker that queued
\* a subdirectory goes on to the file branch and sends the entry as a file
ScanWorkerPushNoContinue(s) ==
  /\ ~spanicked
  /\ s.pc = "push"
  /\ IF dirChClosed
       THEN /\ spanicked' = TRUE
            /\ UNCHANGED <<dirCh, workers>>
       ELSE /\ Len(dirCh) < dirBuf
            /\ dirCh' = Append(dirCh, CurEntry(s).id)
            /\ workers' = Move(workers, s, [s EXCEPT !.pc = "emit"])
            /\ UNCHANGED spanicked
  /\ UNCHANGED <<sCfg, dirChClosed, dirWG, sMain, sMon, sChans, sClosed,
                 sHist, sCanceled, totalFiles>>

\* line 128: dirCh <- entryPath blocks while the queue is full
ScanWorkerPush(s) ==
  /\ ~spanicked
  /\ s.pc = "push"
  /\ IF dirChClosed
       THEN /\ spanicked' = TRUE
            /\ UNCHANGED <<dirCh, workers>>
       ELSE /\ Len(dirCh) < dirBuf
            /\ dirCh' = Append(dirCh, CurEntry(s).id)
            /\ workers' = Move(workers, s, [s EXCEPT !.pc = "entry", !.idx = @ + 1])
            /\ UNCHANGED spanicked
  /\ UNCHANGED <<sCfg, dirChClosed, dirWG, sMain, sMon, sChans, sClosed,
                 sHist, sCanceled, totalFiles>>

(***************************************************************************)
(* The closer, scanner.go 90-93.                                            *)
(***************************************************************************)
ScanCloser ==
  /\ ~spanicked
  /\ closerPc = "wait"
  /\ dirWG = 0
  /\ dirChClosed' = TRUE
  /\ closerPc' = "done"
  /\ UNCHANGED <<sCfg, workers, dirCh, dirWG, smainPc, sdone, sMon, sChans,
                 sClosed, sHist, sCanceled, totalFiles, spanicked>>

(***************************************************************************)
(* The goroutine of ScanDirectory, scanner.go 68-175.                       *)
(***************************************************************************)
\* line 165: dirCh <- path
ScanPushRoot ==
  /\ ~spanicked
  /\ smainPc = "pushroot"
  /\ IF dirChClosed
       THEN /\ spanicked' = TRUE
            /\ UNCHANGED <<dirCh, smainPc>>
       ELSE /\ Len(dirCh) < dirBuf
            /\ dirCh' = Append(dirCh, Root)
            /\ smainPc' = "wait"
            /\ UNCHANGED spanicked
  /\ UNCHANGED <<sCfg, workers, dirChClosed, dirWG, closerPc, sdone, sMon,
                 sChans, sClosed, sHist, sCanceled, totalFiles>>

\* lines 168-171: workers.Wait(), then close(done)
ScanWaitWorkers ==
  /\ ~spanicked
  /\ smainPc = "wait"
  /\ \A s \in ScanWorkers : s.pc = "exit"
  /\ sdone' = TRUE
  /\ smainPc' = "final"
  /\ UNCHANGED <<sCfg, workers, sQueue, closerPc, sMon, sChans, sClosed, sHist,
                 sCanceled, totalFiles, spanicked>>

\* lines 174, 221-235: sendFinalProgress, dropped when the stream is full
ScanSendFinalProgress ==
  /\ ~spanicked
  /\ smainPc = "final"
  /\ sProgressCh' = TrySend(sProgressCh, ProgressBuf, totalFiles)
  /\ sLastSent' = IF Len(sProgressCh) < ProgressBuf THEN totalFiles ELSE sLastSent
  /\ smainPc' = "close"
  /\ UNCHANGED <<sCfg, workers, sQueue, closerPc, sdone, sMon, sFilesCh, sErrCh,
                 sClosed, emitted, failedDirs, statFailed, sCanceled, totalFiles,
                 spanicked>>

\* lines 69, 238-242: the deferred Close closes the three streams in turn
ScanClose ==
  /\ ~spanicked
  /\ \/ /\ smainPc = "close"
        /\ sProgressClosed' = TRUE
        /\ smainPc' = "closeFiles"
        /\ UNCHANGED <<sFilesClosed, sErrClosed>>
     \/ /\ smainPc = "closeFiles"
        /\ sFilesClosed' = TRUE
        /\ smainPc' = "closeErr"
        /\ UNCHANGED <<sProgressClosed, sErrClosed>>
     \/ /\ smainPc = "closeErr"
        /\ sErrClosed' = TRUE
        /\ smainPc' = "end"
        /\ UNCHANGED <<sProgressClosed, sFilesClosed>>
  /\ UNCHANGED <<sCfg, workers, sQueue, closerPc, sdone, sMon, sChans, sHist,
                 sCanceled, totalFiles, spanicked>>

(***************************************************************************)
(* Scanner.monitorProgress, scanner.go 189-218.                             *)
(***************************************************************************)
\* case <-ticker.C: the counters are sampled
ScanMonitorTick ==
  /\ ~spanicked
  /\ smonPc = "select"
  /\ smonSnap' = totalFiles
  /\ smonPc' = "send"
  /\ UNCHANGED <<sCfg, workers, sQueue, sMain, sChans, sClosed, sHist, sCanceled,
                 totalFiles, spanicked>>

\* lines 212-215: the sampled snapshot is sent, or dropped when the stream
\* is full; the send panics when the stream has been closed meanwhile
ScanMonitorSend ==
  /\ ~spanicked
  /\ smonPc = "send"
  /\ IF sProgressClosed
       THEN /\ spanicked' = TRUE
            /\ UNCHANGED <<sProgressCh, smonPc>>
       ELSE /\ sProgressCh' = TrySend(sProgressCh, ProgressBuf, smonSnap)
            /\ smonPc' = "select"
            /\ UNCHANGED spanicked
  \* var progress Progress is a fresh value at every tick
  /\ smonSnap' = IF sProgressClosed THEN smonSnap ELSE 0
  /\ sLastSent' = IF ~sProgressClosed /\ Len(sProgressCh) < ProgressBuf
                    THEN smonSnap ELSE sLastSent
  /\ UNCHANGED <<sCfg, workers, sQueue, sMain, sFilesCh, sErrCh, sClosed, emitted,
                 failedDirs, statFailed, sCanceled, totalFiles>>

\* case <-done: return
ScanMonitorExit ==
  /\ ~spanicked
  /\ smonPc = "select"
  /\ sdone
  /\ smonPc' = "exit"
  /\ UNCHANGED <<sCfg, workers, sQueue, sMain, smonSnap, sChans, sClosed, sHist,
                 sCanceled, totalFiles, spanicked>>

(***************************************************************************)
(* The caller: Cancel (scanner.go 179) and the consumers of the streams.    *)
(***************************************************************************)
\* Cancel storing 0 when the flag is set: a toggle instead of a latch
ScanCancelToggle ==
  /\ ~spanicked
  /\ smainPc # "off"
  /\ sCanceled' = ~sCanceled
  /\ UNCHANGED <<sCfg, workers, sQueue, sMain, sMon, sChans, sClosed, sHist,
                 totalFiles, spanicked>>

\* atomic.StoreInt32(&s.canceled, 1), callable at any time and any number of
\* times on the scanner of the run
ScanCancel ==
  /\ ~spanicked
  /\ smainPc # "off"
  /\ sCanceled' = TRUE
  /\ UNCHANGED <<sCfg, workers, sQueue, sMain, sMon, sChans, sClosed, sHist,
                 totalFiles, spanicked>>

ScanConsumeFile ==
  /\ ~spanicked
  /\ sFilesCh # << >>
  /\ sFilesCh' = Tail(sFilesCh)
  /\ UNCHANGED <<sCfg, workers, sQueue, sMain, sMon, sProgressCh, sErrCh,
                 sClosed, sHist, sCanceled, totalFiles, spanicked>>

ScanConsumeError ==
  /\ ~spanicked
  /\ sErrCh # << >>
  /\ sErrCh' = Tail(sErrCh)
  /\ UNCHANGED <<sCfg, workers, sQueue, sMain, sMon, sProgressCh, sFilesCh,
                 sClosed, sHist, sCanceled, totalFiles, spanicked>>

ScanConsumeProgress ==
  /\ ~spanicked
  /\ sProgressCh # << >>
  /\ sProgressCh' = Tail(sProgressCh)
  /\ UNCHANGED <<sCfg, workers, sQueue, sMain, sMon, sFilesCh, sErrCh, sClosed,
                 sHist, sCanceled, totalFiles, spanicked>>

ScanMainStep ==
  \/ ScanPushRoot
  \/ ScanWaitWorkers
  \/ ScanSendFinalProgress
  \/ ScanClose

ScanNext ==
  \/ \E s \in ScanWorkers : ScanWorkerRecv(s)
  \/ \E s \in ScanWorkers : ScanWorkerList(s)
  \/ \E s \in ScanWorkers : ScanWorkerEntry(s)
  \/ \E s \in ScanWorkers : ScanWorkerEmit(s)
  \/ \E s \in ScanWorkers : ScanWorkerSend(s)
  \/ \E s \in ScanWorkers : ScanWorkerPush(s)
  \/ ScanCloser
  \/ ScanMainStep
  \/ ScanMonitorTick
  \/ ScanMonitorSend
  \/ ScanMonitorExit
  \/ ScanCancel
  \/ ScanConsumeFile
  \/ ScanConsumeError
  \/ ScanConsumeProgress

ScanSpec == ScanInit /\ [][ScanNext]_vars

(***************************************************************************)
(* The copy engine, copier/copier.go.                                       *)
(***************************************************************************)
CopyInit ==
  /\ tree \in CopyTrees
  /\ ScanIdle
  /\ UiIdle
  /\ single = SingleIdle
  /\ sample = SampleIdle
  /\ files \in FileLists(tree)
  /\ workerCount \in 1..MaxCopyWorkers
  /\ cCanceled = FALSE
  /\ progress = ZeroProgress
  /\ fileChan = << >>
  /\ fileChanClosed = FALSE
  /\ copiers = EmptyBag
  /\ cmainPc = "new"
  /\ feedIdx = 0
  /\ cdone = FALSE
  /\ cmonPc = "off"
  /\ cmonSnap = ZeroProgress
  /\ cProgressCh = << >>
  /\ cResultCh = << >>
  /\ cErrCh = << >>
  /\ cProgressClosed = FALSE
  /\ cResultClosed = FALSE
  /\ cErrClosed = FALSE
  /\ cpanicked = FALSE
  /\ dstDirs = {}
  /\ dstContent = << >>
  /\ resultsSent = [f \in FilesOf(tree) |-> 0]
  /\ okSent = 0
  /\ faults = 0
  /\ finalSent = FALSE

\* what no step of a copy run changes: its configuration, and the scanner
cCfg == <<tree, files, workerCount, scanVars, uiVars, single, sample>>
cQueue == <<fileChan, fileChanClosed>>
cMain == <<cmainPc, feedIdx, cdone>>
cMon == <<cmonPc, cmonSnap>>
cChans == <<cProgressCh, cResultCh>>
cClosed == <<cProgressClosed, cResultClosed, cErrClosed>>
cDisk == <<dstDirs, dstContent>>
cHist == <<resultsSent, okSent, faults, finalSent>>

\* the destination file of f is created, or truncated when it exists
Created(dst, f) ==
  [g \in DOMAIN dst \cup {f} |-> IF g = f THEN << >> ELSE dst[g]]
\* the bytes one Read of file f at offset pos puts into the buffer
Chunk(f, pos) ==
  SubSeq(tree.content[f], pos + 1,
         IF pos + BufSize < SizeOf(tree, f) THEN pos + BufSize ELSE SizeOf(tree, f))

\* SetTotal (copier.go 350-355) as the caller uses it before the run: the
\* length of the list and the size summed at scan time (0 when the scanner
\* did not collect sizes)
CopySetTotal ==
  /\ ~cpanicked
  /\ cmainPc = "new"
  /\ \E size \in {0, SumSizes(tree, Range(files))} :
       progress' = [progress EXCEPT !.TotalFiles = Len(files), !.TotalSize = size]
  /\ cmainPc' = "start"
  /\ UNCHANGED <<cCfg, cErrCh, cCanceled, cQueue, copiers, feedIdx, cdone, cMon, cChans,
                 cClosed, cpanicked, cDisk, cHist>>

\* lines 89-94: an empty list ends the run at once
CopyBegin ==
  /\ ~cpanicked
  /\ cmainPc \in {"new", "start"}
  /\ cmainPc' = IF Len(files) = 0 THEN "close" ELSE "mkdirs"
  /\ UNCHANGED <<cCfg, cErrCh, cCanceled, progress, cQueue, copiers, feedIdx, cdone,
                 cMon, cChans, cClosed, cpanicked, cDisk, cHist>>

\* lines 97, 143-170: ensureAllDirectories; every error of the walk is
\* skipped, so the walk leaves some MkdirAll-closed set of mirrors created
CopyEnsureAllDirectories ==
  /\ ~cpanicked
  /\ cmainPc = "mkdirs"
  /\ \E made \in WalkOutcomes(tree) :
       /\ made # DirsOf(tree) => faults < MaxFaults
       /\ dstDirs' = dstDirs \cup made
       /\ faults' = IF made # DirsOf(tree) THEN faults + 1 ELSE faults
  /\ cmainPc' = "totals"
  /\ UNCHANGED <<cCfg, cErrCh, cCanceled, progress, cQueue, copiers, feedIdx, cdone,
                 cMon, cChans, cClosed, cpanicked, dstContent, resultsSent, okSent,
                 finalSent>>

\* lines 99-110: the sizes of the files os.Stat succeeds on are summed, and
\* the totals are stored under the mutex
CopyTotals ==
  /\ ~cpanicked
  /\ cmainPc = "totals"
  /\ \E seen \in SUBSET Range(files) :
       /\ progress' = [progress EXCEPT !.TotalFiles = Len(files),
                                       !.TotalSize = SumSizes(tree, seen)]
       /\ seen # Range(files) => faults < MaxFaults
       /\ faults' = IF seen # Range(files) THEN faults + 1 ELSE faults
  /\ cmainPc' = "spawn"
  /\ UNCHANGED <<cCfg, cErrCh, cCanceled, cQueue, copiers, feedIdx, cdone, cMon, cChans,
                 cClosed, cpanicked, cDisk, resultsSent, okSent, finalSent>>

\* lines 113-124: the file channel, the workers and the sampler
CopySpawn ==
  /\ ~cpanicked
  /\ cmainPc = "spawn"
  /\ copiers' = [s \in {CopyWorkerStart} |-> workerCount]
  /\ cmonPc' = "select"
  /\ cmainPc' = "feed"
  /\ feedIdx' = 1
  /\ UNCHANGED <<cCfg, cErrCh, cCanceled, progress, cQueue, cdone, cmonSnap, cChans,
                 cClosed, cpanicked, cDisk, cHist>>

\* lines 127-130: fileChan holds len(files), so no send blocks
CopyFeed ==
  /\ ~cpanicked
  /\ cmainPc = "feed"
  /\ IF feedIdx <= Len(files)
       THEN /\ fileChan' = Append(fileChan, files[feedIdx])
            /\ feedIdx' = feedIdx + 1
            /\ UNCHANGED <<fileChanClosed, cmainPc>>
       ELSE /\ fileChanClosed' = TRUE
            /\ cmainPc' = "wait"
            /\ UNCHANGED <<fileChan, feedIdx>>
  /\ UNCHANGED <<cCfg, cErrCh, cCanceled, progress, copiers, cdone, cMon, cChans,
                 cClosed, cpanicked, cDisk, cHist>>

\* CopyWaitWorkers without wg.Wait(): the run goes on to close(done) and to
\* the deferred Close while workers are still copying
CopyWaitWorkersNoJoin ==
  /\ ~cpanicked
  /\ cmainPc = "wait"
  /\ cdone' = TRUE
  /\ cmainPc' = "final"
  /\ UNCHANGED <<cCfg, cErrCh, cCanceled, progress, cQueue, copiers, feedIdx, cMon,
                 cChans, cClosed, cpanicked, cDisk, cHist>>

\* lines 133-134: wg.Wait(), then close(done)
CopyWaitWorkers ==
  /\ ~cpanicked
  /\ cmainPc = "wait"
  /\ \A s \in CopyWorkers : s.pc = "exit"
  /\ cdone' = TRUE
  /\ cmainPc' = "final"
  /\ UNCHANGED <<cCfg, cErrCh, cCanceled, progress, cQueue, copiers, feedIdx, cMon,
                 cChans, cClosed, cpanicked, cDisk, cHist>>

\* lines 137, 331-347: sendFinalProgress, dropped when the stream is full
CopySendFinalProgress ==
  /\ ~cpanicked
  /\ cmainPc = "final"
  /\ cProgressCh' = TrySend(cProgressCh, CopyProgressBuf, progress)
  /\ finalSent' = (Len(cProgressCh) < CopyProgressBuf)
  /\ cmainPc' = "close"
  /\ UNCHANGED <<cCfg, cErrCh, cCanceled, progress, cQueue, copiers, feedIdx, cdone,
                 cMon, cResultCh, cClosed, cpanicked, cDisk, resultsSent, okSent,
                 faults>>

\* lines 81-85, 90: the deferred Close closes the three streams in turn
CopyClose ==
  /\ ~cpanicked
  /\ \/ /\ cmainPc = "close"
        /\ cProgressClosed' = TRUE
        /\ cmainPc' = "closeResult"
        /\ UNCHANGED <<cResultClosed, cErrClosed>>
     \/ /\ cmainPc = "closeResult"
        /\ cResultClosed' = TRUE
        /\ cmainPc' = "closeErr"
        /\ UNCHANGED <<cProgressClosed, cErrClosed>>
     \/ /\ cmainPc = "closeErr"
        /\ cErrClosed' = TRUE
        /\ cmainPc' = "end"
        /\ UNCHANGED <<cProgressClosed, cResultClosed>>
  /\ UNCHANGED <<cCfg, cErrCh, cCanceled, progress, cQueue, copiers, feedIdx, cdone,
                 cMon, cChans, cpanicked, cDisk, cHist>>

(***************************************************************************)
(* Copy worker, copier.go 173-285.  s is the worker's local state: the      *)
(* file taken, the read offset, and the CopyResult being built.             *)
(***************************************************************************)
\* the worker returns from copySingleFile with a failed result
Failed(s, size, cause) ==
  [s EXCEPT !.pc = "result", !.ok = FALSE, !.size = size, !.cause = cause]

\* line 181: for srcPath := range fileChan
CopyWorkerRecv(s) ==
  /\ ~cpanicked
  /\ s.pc = "recv"
  /\ \/ /\ fileChan # << >>
        /\ fileChan' = Tail(fileChan)
        /\ copiers' = Move(copiers, s, [s EXCEPT !.pc = "begin", !.file = Head(fileChan)])
     \/ /\ fileChan = << >>
        /\ fileChanClosed
        /\ copiers' = Move(copiers, s, CopyWorkerExit)
        /\ UNCHANGED fileChan
  /\ UNCHANGED <<cCfg, cErrCh, cCanceled, progress, fileChanClosed, cMain, cMon, cChans,
                 cClosed, cpanicked, cDisk, cHist>>

\* CopyWorkerBegin without the check of lines 182-184: a file taken from
\* the queue under cancellation is copied like any other
CopyWorkerBeginUnchecked(s) ==
  /\ ~cpanicked
  /\ s.pc = "begin"
  /\ LET f == s.file
         up == PathTo(tree, DirOfFile(tree, f))
     IN     \/ \* os.MkdirAll fails
                  /\ faults < MaxFaults
                  /\ copiers' = Move(copiers, s, Failed(s, 0, "mkdir"))
                  /\ faults' = faults + 1
                  /\ UNCHANGED cDisk
               \/ \* os.Stat fails
                  /\ faults < MaxFaults
                  /\ copiers' = Move(copiers, s, Failed(s, 0, "stat"))
                  /\ dstDirs' = dstDirs \cup up
                  /\ faults' = faults + 1
                  /\ UNCHANGED dstContent
               \/ \* os.Open or os.Create fails
                  /\ faults < MaxFaults
                  /\ copiers' = Move(copiers, s, Failed(s, SizeOf(tree, f), "open"))
                  /\ dstDirs' = dstDirs \cup up
                  /\ faults' = faults + 1
                  /\ UNCHANGED dstContent
               \/ \* the destination file is created empty
                  /\ copiers' = Move(copiers, s, [s EXCEPT !.pc = "copy", !.pos = 0])
                  /\ dstDirs' = dstDirs \cup up
                  /\ dstContent' = Created(dstContent, f)
                  /\ UNCHANGED faults
  /\ UNCHANGED <<cCfg, cErrCh, cCanceled, progress, cQueue, cMain, cMon, cChans,
                 cClosed, cpanicked, resultsSent, okSent, finalSent>>

\* lines 182-184: under cancellation the worker returns; otherwise lines
\* 202-233 and 254-264: MkdirAll of the destination directory, Stat and
\* Open of the source, Create of the destination
CopyWorkerBegin(s) ==
  /\ ~cpanicked
  /\ s.pc = "begin"
  /\ IF cCanceled
       THEN /\ copiers' = Move(copiers, s, CopyWorkerExit)
            /\ UNCHANGED <<cDisk, faults>>
       ELSE LET f == s.file
                up == PathTo(tree, DirOfFile(tree, f))
            IN \/ \* os.MkdirAll fails
                  /\ faults < MaxFaults
                  /\ copiers' = Move(copiers, s, Failed(s, 0, "mkdir"))
                  /\ faults' = faults + 1
                  /\ UNCHANGED cDisk
               \/ \* os.Stat fails
                  /\ faults < MaxFaults
                  /\ copiers' = Move(copiers, s, Failed(s, 0, "stat"))
                  /\ dstDirs' = dstDirs \cup up
                  /\ faults' = faults + 1
                  /\ UNCHANGED dstContent
               \/ \* os.Open or os.Create fails
                  /\ faults < MaxFaults
                  /\ copiers' = Move(copiers, s, Failed(s, SizeOf(tree, f), "open"))
                  /\ dstDirs' = dstDirs \cup up
                  /\ faults' = faults + 1
                  /\ UNCHANGED dstContent
               \/ \* the destination file is created empty
                  /\ copiers' = Move(copiers, s, [s EXCEPT !.pc = "copy", !.pos = 0])
                  /\ dstDirs' = dstDirs \cup up
                  /\ dstContent' = Created(dstContent, f)
                  /\ UNCHANGED faults
  /\ UNCHANGED <<cCfg, cErrCh, cCanceled, progress, cQueue, cMain, cMon, cChans,
                 cClosed, cpanicked, resultsSent, okSent, finalSent>>

\* CopyWorkerChunk writing every chunk at offset 0 of the destination
\* instead of after the chunks already written
CopyWorkerChunkOverwrite(s) ==
  /\ ~cpanicked
  /\ s.pc = "write"
  /\ LET f == s.file
         size == SizeOf(tree, f)
     IN IF s.pos = size
          THEN /\ copiers' = Move(copiers, s,
                     [s EXCEPT !.pc = "result", !.ok = TRUE, !.size = size])
               /\ UNCHANGED <<dstContent, faults>>
          ELSE \/ /\ dstContent' = [dstContent EXCEPT ![f] = Chunk(f, s.pos)]
                  /\ copiers' = Move(copiers, s,
                        [s EXCEPT !.pc = "copy", !.pos = @ + Len(Chunk(f, s.pos))])
                  /\ UNCHANGED faults
               \/ /\ faults < MaxFaults
                  /\ copiers' = Move(copiers, s, Failed(s, size, "io"))
                  /\ faults' = faults + 1
                  /\ UNCHANGED dstContent
  /\ UNCHANGED <<cCfg, cErrCh, cCanceled, progress, cQueue, cMain, cMon, cChans,
                 cClosed, cpanicked, dstDirs, resultsSent, okSent, finalSent>>

\* CopyWorkerCheck leaving the loop with break when the flag is set, so that
\* copyFileContent returns nil
CopyWorkerCheckBreak(s) ==
  /\ ~cpanicked
  /\ s.pc = "copy"
  /\ copiers' = Move(copiers, s,
                     IF cCanceled
                       THEN [s EXCEPT !.pc = "result", !.ok = TRUE,
                                      !.size = SizeOf(tree, s.file)]
                       ELSE [s EXCEPT !.pc = "write"])
  /\ UNCHANGED <<cCfg, cErrCh, cCanceled, progress, cQueue, cMain, cMon, cChans,
                 cClosed, cpanicked, cDisk, cHist>>

\* CopyWorkerCheck removing the partly written destination file when it
\* returns the canceled error
CopyWorkerCheckRollback(s) ==
  /\ ~cpanicked
  /\ s.pc = "copy"
  /\ IF cCanceled
       THEN /\ copiers' = Move(copiers, s, Failed(s, SizeOf(tree, s.file), "canceled"))
            /\ dstContent' = [g \in DOMAIN dstContent \ {s.file} |-> dstContent[g]]
       ELSE /\ copiers' = Move(copiers, s, [s EXCEPT !.pc = "write"])
            /\ UNCHANGED dstContent
  /\ UNCHANGED <<cCfg, cErrCh, cCanceled, progress, cQueue, cMain, cMon, cChans,
                 cClosed, cpanicked, dstDirs, cHist>>

\* lines 266-269: the flag is read before every chunk
CopyWorkerCheck(s) ==
  /\ ~cpanicked
  /\ s.pc = "copy"
  /\ copiers' = Move(copiers, s,
                     IF cCanceled THEN Failed(s, SizeOf(tree, s.file), "canceled")
                                  ELSE [s EXCEPT !.pc = "write"])
  /\ UNCHANGED <<cCfg, cErrCh, cCanceled, progress, cQueue, cMain, cMon, cChans,
                 cClosed, cpanicked, cDisk, cHist>>

\* lines 270-282: one Read into the buffer and the Write of what was read;
\* the Read at the end of the file returns io.EOF and ends the loop
CopyWorkerChunk(s) ==
  /\ ~cpanicked
  /\ s.pc = "write"
  /\ LET f == s.file
         size == SizeOf(tree, f)
     IN IF s.pos = size
          THEN /\ copiers' = Move(copiers, s,
                     [s EXCEPT !.pc = "result", !.ok = TRUE, !.size = size])
               /\ UNCHANGED <<dstContent, faults>>
          ELSE \/ \* a chunk is read and written
                  /\ dstContent' = [dstContent EXCEPT ![f] = @ \o Chunk(f, s.pos)]
                  /\ copiers' = Move(copiers, s,
                        [s EXCEPT !.pc = "copy", !.pos = @ + Len(Chunk(f, s.pos))])
                  /\ UNCHANGED faults
               \/ \* the Read or the Write fails
                  /\ faults < MaxFaults
                  /\ copiers' = Move(copiers, s, Failed(s, size, "io"))
                  /\ faults' = faults + 1
                  /\ UNCHANGED dstContent
  /\ UNCHANGED <<cCfg, cErrCh, cCanceled, progress, cQueue, cMain, cMon, cChans,
                 cClosed, cpanicked, dstDirs, resultsSent, okSent, finalSent>>

\* CopyWorkerResult sending with select/default: on a full stream the result
\* is dropped and the worker goes on to the counters
CopyWorkerResultNonBlocking(s) ==
  /\ ~cpanicked
  /\ s.pc = "result"
  /\ IF cResultClosed
       THEN /\ cpanicked' = TRUE
            /\ UNCHANGED <<cResultCh, resultsSent, okSent, copiers>>
       ELSE /\ cResultCh' = TrySend(cResultCh, ResultBuf,
                 [FilePath |-> s.file, Success |-> s.ok, Size |-> s.size,
                  Error |-> s.cause])
            /\ resultsSent' = [resultsSent EXCEPT ![s.file] = @ + 1]
            /\ okSent' = IF s.ok THEN okSent + 1 ELSE okSent
            /\ copiers' = Move(copiers, s, [s EXCEPT !.pc = "count"])
            /\ UNCHANGED cpanicked
  /\ UNCHANGED <<cCfg, cErrCh, cCanceled, progress, cQueue, cMain, cMon, cProgressCh,
                 cClosed, cDisk, faults, finalSent>>

\* line 186: c.resultCh <- result blocks while the stream is full
CopyWorkerResult(s) ==
  /\ ~cpanicked
  /\ s.pc = "result"
  /\ IF cResultClosed
       THEN /\ cpanicked' = TRUE
            /\ UNCHANGED <<cResultCh, resultsSent, okSent, copiers>>
       ELSE /\ Len(cResultCh) < ResultBuf
            /\ cResultCh' = Append(cResultCh,
                 [FilePath |-> s.file, Success |-> s.ok, Size |-> s.size,
                  Error |-> s.cause])
            /\ resultsSent' = [resultsSent EXCEPT ![s.file] = @ + 1]
            /\ okSent' = IF s.ok THEN okSent + 1 ELSE okSent
            /\ copiers' = Move(copiers, s, [s EXCEPT !.pc = "count"])
            /\ UNCHANGED cpanicked
  /\ UNCHANGED <<cCfg, cErrCh, cCanceled, progress, cQueue, cMain, cMon, cProgressCh,
                 cClosed, cDisk, faults, finalSent>>

\* CopyWorkerCount counting a failed file as attempted and as failed: it
\* adds to CompletedFiles whatever the result, and to FailedFiles on failure
CopyWorkerCountBoth(s) ==
  /\ ~cpanicked
  /\ s.pc = "count"
  /\ progress' =
       IF s.ok
         THEN [progress EXCEPT !.CompletedFiles = @ + 1, !.CompletedSize = @ + s.size]
         ELSE [progress EXCEPT !.CompletedFiles = @ + 1, !.FailedFiles = @ + 1]
  /\ copiers' = Move(copiers, s, CopyWorkerStart)
  /\ UNCHANGED <<cCfg, cErrCh, cCanceled, cQueue, cMain, cMon, cChans, cClosed,
                 cpanicked, cDisk, cHist>>

\* CopyWorkerCount returning from copyWorker after a failed file instead of
\* taking the next one
CopyWorkerCountStopOnFailure(s) ==
  /\ ~cpanicked
  /\ s.pc = "count"
  /\ progress' =
       IF s.ok
         THEN [progress EXCEPT !.CompletedFiles = @ + 1, !.CompletedSize = @ + s.size]
         ELSE [progress EXCEPT !.FailedFiles = @ + 1]
  /\ copiers' = Move(copiers, s, IF s.ok THEN CopyWorkerStart ELSE CopyWorkerExit)
  /\ UNCHANGED <<cCfg, cErrCh, cCanceled, cQueue, cMain, cMon, cChans, cClosed,
                 cpanicked, cDisk, cHist>>

\* CopyWorkerCount taking the branch of line 188 whatever result.Success is:
\* a failed file is counted as completed
CopyWorkerCountAsCompleted(s) ==
  /\ ~cpanicked
  /\ s.pc = "count"
  /\ progress' = [progress EXCEPT !.CompletedFiles = @ + 1, !.CompletedSize = @ + s.size]
  /\ copiers' = Move(copiers, s, CopyWorkerStart)
  /\ UNCHANGED <<cCfg, cErrCh, cCanceled, cQueue, cMain, cMon, cChans, cClosed,
                 cpanicked, cDisk, cHist>>

\* lines 188-197: the counters, under progressMux
CopyWorkerCount(s) ==
  /\ ~cpanicked
  /\ s.pc = "count"
  /\ progress' =
       IF s.ok
         THEN [progress EXCEPT !.CompletedFiles = @ + 1, !.CompletedSize = @ + s.size]
         ELSE [progress EXCEPT !.FailedFiles = @ + 1]
  /\ copiers' = Move(copiers, s, CopyWorkerStart)
  /\ UNCHANGED <<cCfg, cErrCh, cCanceled, cQueue, cMain, cMon, cChans, cClosed,
                 cpanicked, cDisk, cHist>>

(***************************************************************************)
(* Copier.monitorProgress, copier.go 288-328.                               *)
(***************************************************************************)
\* case <-ticker.C: the progress struct is copied under the mutex
CopyMonitorTick ==
  /\ ~cpanicked
  /\ cmonPc = "select"
  /\ cmonSnap' = progress
  /\ cmonPc' = "send"
  /\ UNCHANGED <<cCfg, cErrCh, cCanceled, progress, cQueue, copiers, cMain, cChans,
                 cClosed, cpanicked, cDisk, cHist>>

\* lines 322-325: the copy is sent, or dropped when the stream is full; the
\* send panics when the stream has been closed meanwhile
CopyMonitorSend ==
  /\ ~cpanicked
  /\ cmonPc = "send"
  /\ IF cProgressClosed
       THEN /\ cpanicked' = TRUE
            /\ UNCHANGED <<cProgressCh, cMon, finalSent>>
       ELSE /\ cProgressCh' = TrySend(cProgressCh, CopyProgressBuf, cmonSnap)
            \* a snapshot put after the final one makes the final one not last
            /\ finalSent' = (finalSent /\ Len(cProgressCh) >= CopyProgressBuf)
            /\ cmonPc' = "select"
            /\ cmonSnap' = ZeroProgress
            /\ UNCHANGED cpanicked
  /\ UNCHANGED <<cCfg, cErrCh, cCanceled, progress, cQueue, copiers, cMain, cResultCh,
                 cClosed, cDisk, resultsSent, okSent, faults>>

\* case <-done: return
CopyMonitorExit ==
  /\ ~cpanicked
  /\ cmonPc = "select"
  /\ cdone
  /\ cmonPc' = "exit"
  /\ UNCHANGED <<cCfg, cErrCh, cCanceled, progress, cQueue, copiers, cMain, cmonSnap,
                 cChans, cClosed, cpanicked, cDisk, cHist>>

(***************************************************************************)
(* The caller: Cancel (copier.go 379) and the consumers of the streams.     *)
(* Nothing is ever sent on errCh, so it has nothing to consume.             *)
(***************************************************************************)
\* atomic.StoreInt32(&c.canceled, 1), callable at any time and any number of
\* times on the copier of the run
CopyCancel ==
  /\ ~cpanicked
  /\ cmainPc # "off"
  /\ cCanceled' = TRUE
  /\ UNCHANGED <<cCfg, cErrCh, progress, cQueue, copiers, cMain, cMon, cChans, cClosed,
                 cpanicked, cDisk, cHist>>

CopyConsumeResult ==
  /\ ~cpanicked
  /\ cResultCh # << >>
  /\ cResultCh' = Tail(cResultCh)
  /\ UNCHANGED <<cCfg, cErrCh, cCanceled, progress, cQueue, copiers, cMain, cMon,
                 cProgressCh, cClosed, cpanicked, cDisk, cHist>>

CopyConsumeProgress ==
  /\ ~cpanicked
  /\ cProgressCh # << >>
  /\ cProgressCh' = Tail(cProgressCh)
  /\ UNCHANGED <<cCfg, cErrCh, cCanceled, progress, cQueue, copiers, cMain, cMon,
                 cResultCh, cClosed, cpanicked, cDisk, cHist>>

CopyMainStep ==
  \/ CopyBegin
  \/ CopyEnsureAllDirectories
  \/ CopyTotals
  \/ CopySpawn
  \/ CopyFeed
  \/ CopyWaitWorkers
  \/ CopySendFinalProgress
  \/ CopyClose

CopyNext ==
  \/ CopySetTotal
  \/ CopyMainStep
  \/ \E s \in CopyWorkers : CopyWorkerRecv(s)
  \/ \E s \in CopyWorkers : CopyWorkerBegin(s)
  \/ \E s \in CopyWorkers : CopyWorkerCheck(s)
  \/ \E s \in CopyWorkers : CopyWorkerChunk(s)
  \/ \E s \in CopyWorkers : CopyWorkerResult(s)
  \/ \E s \in CopyWorkers : CopyWorkerCount(s)
  \/ CopyMonitorTick
  \/ CopyMonitorSend
  \/ CopyMonitorExit
  \/ CopyCancel
  \/ CopyConsumeResult
  \/ CopyConsumeProgress

CopySpec == CopyInit /\ [][CopyNext]_vars

\* every goroutine that can run is eventually run, and the caller keeps
\* draining the result stream
CopyFairness ==
  /\ WF_vars(\E s \in CopyWorkers : CopyWorkerRecv(s))
  /\ WF_vars(\E s \in CopyWorkers : CopyWorkerBegin(s))
  /\ WF_vars(\E s \in CopyWorkers : CopyWorkerCheck(s))
  /\ WF_vars(\E s \in CopyWorkers : CopyWorkerChunk(s))
  /\ WF_vars(\E s \in CopyWorkers : CopyWorkerResult(s))
  /\ WF_vars(\E s \in CopyWorkers : CopyWorkerCount(s))
  /\ WF_vars(CopyMainStep)
  /\ WF_vars(CopyMonitorSend)
  /\ WF_vars(CopyConsumeResult)

FairCopySpec == CopySpec /\ CopyFairness

\* every goroutine that can run is eventually run, and the caller keeps
\* draining the file stream
ScanFairness ==
  /\ WF_vars(\E s \in ScanWorkers : ScanWorkerRecv(s))
  /\ WF_vars(\E s \in ScanWorkers : ScanWorkerList(s))
  /\ WF_vars(\E s \in ScanWorkers : ScanWorkerEntry(s))
  /\ WF_vars(\E s \in ScanWorkers : ScanWorkerEmit(s))
  /\ WF_vars(\E s \in ScanWorkers : ScanWorkerSend(s))
  /\ WF_vars(\E s \in ScanWorkers : ScanWorkerPush(s))
  /\ WF_vars(ScanCloser)
  /\ WF_vars(ScanMainStep)
  /\ WF_vars(ScanMonitorSend)
  /\ WF_vars(ScanConsumeFile)

FairScanSpec == ScanSpec /\ ScanFairness

\* a scan whose progress stream nobody reads: every step of ScanNext but the
\* consumer of the progress stream
UnwatchedScanNext ==
  \/ \E s \in ScanWorkers : ScanWorkerRecv(s)
  \/ \E s \in ScanWorkers : ScanWorkerList(s)
  \/ \E s \in ScanWorkers : ScanWorkerEntry(s)
  \/ \E s \in ScanWorkers : ScanWorkerEmit(s)
  \/ \E s \in ScanWorkers : ScanWorkerSend(s)
  \/ \E s \in ScanWorkers : ScanWorkerPush(s)
  \/ ScanCloser
  \/ ScanMainStep
  \/ ScanMonitorTick
  \/ ScanMonitorSend
  \/ ScanMonitorExit
  \/ ScanCancel
  \/ ScanConsumeFile
  \/ ScanConsumeError

UnwatchedScanSpec == ScanInit /\ [][UnwatchedScanNext]_vars /\ ScanFairness

\* a run of either component: a scan, or a copy run
RunInit == ScanInit \/ CopyInit
RunNext == ScanNext \/ CopyNext
RunSpec == RunInit /\ [][RunNext]_vars

(***************************************************************************)
(* The scan-then-copy pipeline of the TUI (ui.Model, unnamed/part_000):     *)
(* startScanCopy starts the scan and the three watch commands, Update       *)
(* handles the messages they return.  The TUI reads no CopyResult.          *)
(***************************************************************************)
\* a panic of any goroutine ends the process
UiAlive == ~spanicked /\ ~cpanicked

\* lines 348-365 after the confirm page set page = 2 (line 195), over a
\* source tree of one file in a subdirectory and a file system that fails no
\* operation of the copy (the scan's listings and size lookups may fail)
UiInit ==
  /\ tree = TreeNested
  /\ ScanStarted
  /\ CopyIdle
  /\ faults = MaxFaults
  /\ single = SingleIdle
  /\ sample = SampleIdle
  /\ uiPage = 2
  /\ uiScanning = TRUE
  /\ uiCopying = FALSE
  /\ mfiles = << >>
  /\ uiWatch = {"scanProgress", "scanFiles", "scanErrors"}

\* scanProgressMsg (lines 239-242): the snapshot is shown, the watch re-issued
UiScanProgress ==
  /\ UiAlive
  /\ "scanProgress" \in uiWatch
  /\ ScanConsumeProgress

\* scanFileMsg (lines 243-246): the path is appended to Model.files
UiScanFile ==
  /\ UiAlive
  /\ "scanFiles" \in uiWatch
  /\ sFilesCh # << >>
  /\ sFilesCh' = Tail(sFilesCh)
  /\ mfiles' = Append(mfiles, Head(sFilesCh).id)
  /\ UNCHANGED <<tree, single, sample, concurrency, dirBuf, collectSize, copyVars, uiPage,
                 uiScanning, uiCopying, uiWatch, workers, sQueue, sMain, sMon,
                 sProgressCh, sErrCh, sClosed, sHist, sCanceled, totalFiles,
                 spanicked>>

\* scanErrMsg (lines 259-262): the handler returns no command, so the
\* error stream is read once
UiScanError ==
  /\ UiAlive
  /\ "scanErrors" \in uiWatch
  /\ sErrCh # << >>
  /\ sErrCh' = Tail(sErrCh)
  /\ uiWatch' = uiWatch \ {"scanErrors"}
  /\ UNCHANGED <<tree, single, sample, concurrency, dirBuf, collectSize, copyVars, uiPage,
                 uiScanning, uiCopying, mfiles, workers, sQueue, sMain, sMon,
                 sProgressCh, sFilesCh, sClosed, sHist, sCanceled, totalFiles,
                 spanicked>>

\* scanDoneMsg (lines 247-258), returned by the progress watch and by the
\* file watch when their stream is closed and drained: a new Copier is made,
\* SetTotal and CopyFilesParallel are called on the files collected so far.
\* The copier variables follow the Copier Model.cpr refers to.
UiScanDone(w) ==
  /\ UiAlive
  /\ w \in uiWatch
  /\ \/ w = "scanProgress" /\ sProgressClosed /\ sProgressCh = << >>
     \/ w = "scanFiles" /\ sFilesClosed /\ sFilesCh = << >>
  /\ uiScanning' = FALSE
  /\ uiCopying' = TRUE
  /\ uiWatch' = (uiWatch \ {w}) \cup {"copyProgress"}
  /\ files' = mfiles
  /\ workerCount' \in IF cmainPc = "off" THEN 1..MaxCopyWorkers ELSE {workerCount}
  /\ cCanceled' = FALSE
  /\ progress' = [ZeroProgress EXCEPT
                    !.TotalFiles = Len(mfiles),
                    !.TotalSize = IF collectSize
                                    THEN SumSizes(tree, Range(mfiles)) ELSE 0]
  /\ fileChan' = << >>
  /\ fileChanClosed' = FALSE
  /\ copiers' = EmptyBag
  /\ cmainPc' = "start"
  /\ feedIdx' = 0
  /\ cdone' = FALSE
  /\ cmonPc' = "off"
  /\ cmonSnap' = ZeroProgress
  /\ cProgressCh' = << >>
  /\ cResultCh' = << >>
  /\ cErrCh' = << >>
  /\ cProgressClosed' = FALSE
  /\ cResultClosed' = FALSE
  /\ cErrClosed' = FALSE
  /\ resultsSent' = [f \in FilesOf(tree) |-> 0]
  /\ okSent' = 0
  /\ finalSent' = FALSE
  /\ UNCHANGED <<tree, single, sample, scanVars, uiPage, mfiles, cpanicked, cDisk, faults>>

\* copyProgressMsg (lines 263-270)
UiCopyProgress ==
  /\ UiAlive
  /\ "copyProgress" \in uiWatch
  /\ CopyConsumeProgress

\* copyDoneMsg (lines 271-274), returned when the copier's progress stream
\* is closed and drained
UiCopyDone ==
  /\ UiAlive
  /\ "copyProgress" \in uiWatch
  /\ cProgressClosed /\ cProgressCh = << >>
  /\ uiCopying' = FALSE
  /\ uiWatch' = uiWatch \ {"copyProgress"}
  /\ UNCHANGED <<tree, single, sample, scanVars, copyVars, uiPage, uiScanning, mfiles>>

\* ctrl+x on the progress page (lines 161-179): the phase in progress is
\* cancelled and the Model returns to page 0, where ctrl+x is not handled
UiCancel ==
  /\ UiAlive
  /\ uiPage = 2
  /\ sCanceled' = (sCanceled \/ uiScanning)
  /\ cCanceled' = (cCanceled \/ uiCopying)
  /\ uiScanning' = FALSE
  /\ uiCopying' = FALSE
  /\ uiPage' = 0
  /\ UNCHANGED <<tree, single, sample, mfiles, uiWatch, concurrency, dirBuf, collectSize,
                 workers, sQueue, sMain, sMon, sChans, sClosed, sHist,
                 totalFiles, spanicked, files, workerCount, progress, cQueue,
                 copiers, cMain, cMon, cChans, cErrCh, cClosed, cpanicked,
                 cDisk, cHist>>

UiNext ==
  \/ \E s \in ScanWorkers : UiAlive /\ ScanWorkerRecv(s)
  \/ \E s \in ScanWorkers : UiAlive /\ ScanWorkerList(s)
  \/ \E s \in ScanWorkers : UiAlive /\ ScanWorkerEntry(s)
  \/ \E s \in ScanWorkers : UiAlive /\ ScanWorkerEmit(s)
  \/ \E s \in ScanWorkers : UiAlive /\ ScanWorkerSend(s)
  \/ \E s \in ScanWorkers : UiAlive /\ ScanWorkerPush(s)
  \/ UiAlive /\ ScanCloser
  \/ UiAlive /\ ScanMainStep
  \/ UiAlive /\ ScanMonitorTick
  \/ UiAlive /\ ScanMonitorSend
  \/ UiAlive /\ ScanMonitorExit
  \/ UiAlive /\ CopyMainStep
  \/ \E s \in CopyWorkers : UiAlive /\ CopyWorkerRecv(s)
  \/ \E s \in CopyWorkers : UiAlive /\ CopyWorkerBegin(s)
  \/ \E s \in CopyWorkers : UiAlive /\ CopyWorkerCheck(s)
  \/ \E s \in CopyWorkers : UiAlive /\ CopyWorkerChunk(s)
  \/ \E s \in CopyWorkers : UiAlive /\ CopyWorkerResult(s)
  \/ \E s \in CopyWorkers : UiAlive /\ CopyWorkerCount(s)
  \/ UiAlive /\ CopyMonitorTick
  \/ UiAlive /\ CopyMonitorSend
  \/ UiAlive /\ CopyMonitorExit
  \/ UiScanProgress
  \/ UiScanFile
  \/ UiScanError
  \/ \E w \in {"scanProgress", "scanFiles"} : UiScanDone(w)
  \/ UiCopyProgress
  \/ UiCopyDone
  \/ UiCancel

UiSpec == UiInit /\ [][UiNext]_vars

(***************************************************************************)
(* Properties of the scanner.                                               *)
(***************************************************************************)
ScanAllExited == \A s \in ScanWorkers : s.pc = "exit"
ScanStreamsClosed == sProgressClosed /\ sFilesClosed /\ sErrClosed
\* every worker is blocked pushing a subdirectory onto the full queue
ScanPushDeadlock ==
  /\ \A s \in ScanWorkers : s.pc = "push"
  /\ Len(dirCh) = dirBuf
  /\ ~dirChClosed

ScanNeverPushDeadlocked == ~ScanPushDeadlock

\* C8 as stated: once Cancel has been called (the file stream being
\* drained), the directory queue is closed, every worker exits and the
\* three streams are closed.
ScanCancelTerminates ==
  sCanceled ~> (dirWG = 0 /\ dirChClosed /\ ScanAllExited /\ ScanStreamsClosed)

(***************************************************************************)
(* Properties of the copy engine.                                           *)
(***************************************************************************)
CopyAllExited == \A s \in CopyWorkers : s.pc = "exit"
CopyStreamsClosed == cProgressClosed /\ cResultClosed /\ cErrClosed
\* the sampler goroutine is not running
CopySamplerStopped == cmonPc \in {"off", "exit"}
\* every progress value there is: the struct, the sampler's copy, the stream
CopySnapshots == {progress, cmonSnap} \cup Range(cProgressCh)

\* C2: after a CopyFilesParallel run in which Cancel was not called and no
\* file operation failed, CompletedFiles = TotalFiles, FailedFiles = 0, and
\* every file of the list has a destination file in the mirror of its
\* directory whose content equals the source content.
CopyCleanRunCopiesAll ==
  (cmainPc = "end" /\ ~cCanceled /\ faults = 0)
    => /\ progress.CompletedFiles = progress.TotalFiles
       /\ progress.FailedFiles = 0
       /\ \A f \in Range(files) :
            /\ DirOfFile(tree, f) \in dstDirs
            /\ f \in DOMAIN dstContent
            /\ dstContent[f] = tree.content[f]

\* C2 witness: a clean run of two workers over the 3-byte and the empty file
\* has ended.
CopyCleanRunCopiesAllWitness ==
  /\ cmainPc = "end" /\ ~cCanceled /\ faults = 0
  /\ tree = TreeExample
  /\ Len(files) = 2
  /\ workerCount = 2
  /\ progress.CompletedFiles = 2
  /\ dstContent[1] = <<1, 2, 3>>

\* C3 as stated: after a copy run that was not cancelled, every directory of
\* the source tree has its mirror under the target root.
CopyMirrorsEveryDirectory ==
  (cmainPc = "end" /\ ~cCanceled) => dstDirs = DirsOf(tree)

\* C5: in every state, the progress struct, the sampler's copy of it and
\* every snapshot on the progress stream have
\* CompletedFiles + FailedFiles <= TotalFiles.
CopyCountersBounded ==
  \A p \in CopySnapshots : p.CompletedFiles + p.FailedFiles <= p.TotalFiles

\* C5 witness: a run with a failed and a completed file, cancelled, with a
\* snapshot on the stream that counts both.
CopyCountersBoundedWitness ==
  /\ cCanceled
  /\ progress.FailedFiles = 1
  /\ progress.CompletedFiles = 1
  /\ cProgressCh # << >>
  /\ Head(cProgressCh).CompletedFiles + Head(cProgressCh).FailedFiles = 2

\* C6: no file ever has two CopyResults, a file outside the list has none,
\* and when Cancel was not called every file of the list has exactly one by
\* the time the result stream is closed, whether it succeeded or failed.
CopyOneResultPerFile ==
  /\ \A f \in FilesOf(tree) :
       resultsSent[f] <= (IF f \in Range(files) THEN 1 ELSE 0)
  /\ (cResultClosed /\ ~cCanceled)
       => \A f \in Range(files) : resultsSent[f] = 1

\* C6 witness: the first file of the list failed, the run was not cancelled,
\* and the result stream is closed.
CopyOneResultPerFileWitness ==
  /\ cResultClosed /\ ~cCanceled
  /\ Len(files) = 2
  /\ workerCount = 1
  /\ progress.FailedFiles = 1
  /\ progress.CompletedFiles = 1
  /\ ~(files[1] \in DOMAIN dstContent)

\* C7 as stated: once Cancel has been called (the result stream being
\* drained), every copy worker exits and the three streams are closed.
CopyCancelTerminates ==
  cCanceled ~> (CopyAllExited /\ CopyStreamsClosed)

\* C9 as stated: once the engine has closed its progress stream, every
\* worker has exited and the sampler has stopped.
CopyClosedMeansAllStopped ==
  cProgressClosed => (CopyAllExited /\ CopySamplerStopped)

\* C10 as stated: when the progress stream is closed, the final snapshot was
\* put on it and nothing was put on it afterwards.
CopyFinalSnapshotIsLast ==
  cProgressClosed => finalSent

\* C11 as stated: a scan whose progress stream is never read (its file and
\* error streams being drained) reaches the closure of its three streams.
ScanUnwatchedReachesClosure == <>ScanStreamsClosed

\* C12 as stated: every step in which a directory listing fails puts one
\* error on the scan error stream.
ScanListingFailureIsQueued ==
  [][failedDirs' # failedDirs => Len(sErrCh') = Len(sErrCh) + 1]_vars

\* C13 as stated: when the copy error stream is closed, it was given as many
\* values as there are failed files.
CopyErrorPerFailedFile ==
  cErrClosed => Len(cErrCh) = progress.FailedFiles

\* C15: no step of a scanner or a copier takes its cancellation flag from
\* true back to false, and a Cancel on a flag that is already set changes
\* nothing at all.
CancelFlagIsLatch ==
  [][/\ sCanceled => sCanceled'
     /\ cCanceled => cCanceled'
     /\ (sCanceled /\ ScanCancel) => UNCHANGED vars
     /\ (cCanceled /\ CopyCancel) => UNCHANGED vars]_vars

\* C15 witness: a scan cancelled while its worker held a file went on to
\* close its streams with the flag still set.
CancelFlagIsLatchWitness ==
  /\ sCanceled
  /\ ScanStreamsClosed
  /\ totalFiles = 1
  /\ \A e \in EntriesOf(tree) : emitted[e] = 0

\* C14 as stated: once cancel was requested during the scan phase (the only
\* time the TUI sets the scanner's flag), no file is copied to the target.
UiCancelledScanCopiesNothing == sCanceled => DOMAIN dstContent = {}

\* C16 as stated: every snapshot put on the scanner's progress stream, a
\* periodic one or the final one, counts at least as many files as the
\* snapshot put on the stream before it.
ScanSnapshotsNeverDecrease ==
  [][Len(sProgressCh') > Len(sProgressCh)
       => sProgressCh'[Len(sProgressCh')] >= sLastSent]_vars

\* C17 as stated: at every state of a copy run the bytes counted as
\* completed do not exceed the total byte count of the progress struct.
CopyCompletedSizeBounded == progress.CompletedSize <= progress.TotalSize

\* C18 as stated: once the totals of a copy run are set (SetTotal, called
\* with the length of a non-empty list), no later step of the run changes
\* TotalFiles or TotalSize.
CopyTotalsFixedOnceSet ==
  [][progress.TotalFiles # 0
       => /\ progress'.TotalFiles = progress.TotalFiles
          /\ progress'.TotalSize = progress.TotalSize]_vars

\* C19: the scanner's file stream and error stream are closed only when
\* every scan worker has returned, and the copier's result stream only when
\* every copy worker has returned; so no worker is left to send on a closed
\* stream, and what the workers sent stays queued for the consumer.
StreamsCloseAfterWorkers ==
  /\ (sFilesClosed \/ sErrClosed) => ScanAllExited
  /\ cResultClosed => CopyAllExited
\* C19 witness: a scan whose two workers returned and whose streams were
\* closed with a FileInfo and an error still queued for the consumer.
StreamsCloseAfterWorkersWitness ==
  /\ sFilesClosed /\ sErrClosed /\ concurrency = 2
  /\ sFilesCh # << >> /\ sErrCh # << >>

\* the directories a scan worker in local state s accounts for: the one it
\* is processing, and the subdirectory it counted and is pushing
Held(s) ==
  IF s.pc = "push" THEN 2
  ELSE IF s.pc \in {"list", "entry", "emit", "send"} THEN 1 ELSE 0
RECURSIVE HeldBy(_)
HeldBy(S) ==
  IF S = {} THEN 0
  ELSE LET s == CHOOSE x \in S : TRUE
       IN workers[s] * Held(s) + HeldBy(S \ {s})
\* directories queued, being pushed or being processed, and the root before
\* ScanDirectory has pushed it
PendingDirs ==
  Len(dirCh) + HeldBy(ScanWorkers) + (IF smainPc = "pushroot" THEN 1 ELSE 0)

\* C20: the pending-count equals the number of directories queued, being
\* pushed or in process (the root included before it is pushed); the
\* directory queue is closed only when that number is zero, so nothing is
\* sent on the closed queue.
PendingCountIsExact ==
  /\ dirWG = PendingDirs
  /\ dirChClosed => PendingDirs = 0
  /\ \A s \in ScanWorkers : s.pc = "push" => ~dirChClosed
  /\ smainPc = "pushroot" => ~dirChClosed
\* C20 witness: three directories pending at once: a worker is processing
\* the root and pushing a subdirectory it counted while another subdirectory
\* waits in the queue.
PendingCountIsExactWitness ==
  /\ dirWG = 3 /\ Len(dirCh) = 1
  /\ \E s \in ScanWorkers : s.pc = "push" /\ s.dir = Root

RECURSIVE SentFor(_)
\* the number of CopyResults sent for the files 1..n
SentFor(n) == IF n = 0 THEN 0 ELSE resultsSent[n] + SentFor(n - 1)
\* the number of CopyResults put on the result stream so far
ResultsSent == SentFor(Len(tree.content))

\* C21: the counters follow the results: CompletedFiles + FailedFiles never
\* exceeds the number of CopyResults sent, CompletedFiles never exceeds the
\* number of successful results sent, and once the result stream is closed
\* every result sent has been counted, in the counter its Success selects.
CopyCountersFollowResults ==
  /\ progress.CompletedFiles + progress.FailedFiles <= ResultsSent
  /\ progress.CompletedFiles <= okSent
  /\ progress.FailedFiles <= ResultsSent - okSent
  /\ cResultClosed =>
       /\ progress.CompletedFiles = okSent
       /\ progress.FailedFiles = ResultsSent - okSent
\* C21 witness: the result stream is closed after a success and a failure
\* were sent and counted.
CopyCountersFollowResultsWitness ==
  /\ cResultClosed
  /\ progress.CompletedFiles = 1 /\ progress.FailedFiles = 1
  /\ okSent = 1 /\ ResultsSent = 2

\* C22 as stated: a scan in which the listing of a directory failed goes on
\* and terminates: it reaches the closure of its three streams.
ScanListingFailureStillTerminates == (failedDirs # {}) ~> ScanStreamsClosed

\* the number of workers of the pool whose position is one of pcs
NumAt(pool, pcs) ==
  BagCardinality([s \in {x \in BagToSet(pool) : x.pc \in pcs} |-> pool[s]])

\* C23: once the flag is set no directory is listed any more (the number of
\* workers inside a listed directory never grows), and the only workers that
\* still send a FileInfo or queue a subdirectory are those that had passed
\* the last check before it: each such send or push uses up one of them and
\* no worker comes to that position again, so every worker sends at most one
\* further FileInfo and queues at most one further subdirectory.  (The root is
\* queued by ScanDirectory itself, line 165, whatever the flag.)
ScanCancelIsPerDirectory ==
  [][sCanceled =>
       /\ NumAt(workers', {"entry", "emit", "send", "push"})
            <= NumAt(workers, {"entry", "emit", "send", "push"})
       /\ NumAt(workers', {"send"}) <= NumAt(workers, {"send"})
       /\ NumAt(workers', {"push"}) <= NumAt(workers, {"push"})
       /\ emitted' # emitted
            => NumAt(workers', {"send"}) = NumAt(workers, {"send"}) - 1
       /\ (Len(dirCh') > Len(dirCh) /\ smainPc # "pushroot")
            => NumAt(workers', {"push"}) = NumAt(workers, {"push"}) - 1]_vars
\* C23 witness: the flag was set while one worker had passed the check of
\* line 153 and the stream has room: it sends its one further FileInfo; a
\* directory is still queued and will be taken without being listed.
ScanCancelIsPerDirectoryWitness ==
  /\ sCanceled /\ ~spanicked
  /\ NumAt(workers, {"send"}) = 1
  /\ sFilesCh = << >>
  /\ dirCh # << >>

\* C24: once the flag is set no worker starts a file (the number of workers
\* past the check of line 182 and not yet done with their file never grows); the only chunks still written are
\* those of workers that had passed the check of line 267 before it, each
\* write using up one of them and no worker passing that check again; and
\* every CopyResult sent comes from a worker that was past the check of line
\* 182 or about to send, which then leaves that position for good.  So each
\* worker writes at most one further chunk and sends at most one further
\* CopyResult.  (Only a step of a worker changes the pool, the
\* destination files or the results sent.)
CopyCancelIsPerChunk ==
  [][(cCanceled /\ copiers' # copiers) =>
       LET busy == {"copy", "write", "result"}
           before == NumAt(copiers, busy)
           after == NumAt(copiers', busy)
           writing == NumAt(copiers, {"write"})
           writing2 == NumAt(copiers', {"write"})
       IN /\ after <= before
          /\ writing2 <= writing
          /\ dstContent' # dstContent => writing2 = writing - 1
          /\ resultsSent' # resultsSent => after = before - 1]_vars
\* C24 witness: the flag is set while a worker in the middle of a file has
\* passed the check and is about to write its further chunk, and another
\* file waits in the queue.
CopyCancelIsPerChunkWitness ==
  /\ cCanceled /\ ~cpanicked
  /\ fileChan # << >>
  /\ \E s \in CopyWorkers : s.pc = "write" /\ s.pos > 0 /\ s.pos < SizeOf(tree, s.file)
\* C25: a worker that reads the flag set before a chunk (line 267) leaves
\* copySingleFile with a failed result carrying the canceled error; the file
\* has no result before that one is sent and exactly one after; the
\* destination keeps the chunks written so far, and no step ever removes or
\* shortens a destination file.  A file that a worker drops at lines 182-184
\* makes the worker return with no result sent and nothing on disk changed,
\* and a file with no result that no worker holds has no destination file.
CopyCancelledFileFailsOnce ==
  [][/\ \A s \in BagToSet(copiers') :
          s.cause = "canceled" =>
            /\ s.pc \in {"result", "count"}
            /\ ~s.ok
            /\ resultsSent'[s.file] = (IF s.pc = "result" THEN 0 ELSE 1)
            /\ s.file \in DOMAIN dstContent'
            /\ dstContent'[s.file] = SubSeq(tree.content[s.file], 1, s.pos)
     /\ \A i \in 1..Len(cResultCh') :
          cResultCh'[i].Error = "canceled" => ~cResultCh'[i].Success
     /\ \A f \in DOMAIN dstContent :
          /\ f \in DOMAIN dstContent'
          /\ Len(dstContent'[f]) >= Len(dstContent[f])
     /\ (cCanceled /\ copiers' # copiers
           /\ NumAt(copiers', {"begin"}) < NumAt(copiers, {"begin"}))
          => /\ NumAt(copiers', {"exit"}) = NumAt(copiers, {"exit"}) + 1
             /\ cDisk' = cDisk
             /\ resultsSent' = resultsSent
             /\ cResultCh' = cResultCh
     /\ \A f \in FilesOf(tree) :
          (resultsSent'[f] = 0 /\ f \notin {s.file : s \in BagToSet(copiers')})
            => f \notin DOMAIN dstContent']_vars

\* C25 witness: the run was cancelled while x.txt was partly written; its
\* failed result was sent and the partial file is still there when the
\* result stream is closed, and y.txt, taken after Cancel, has no result and
\* no destination file.
CopyCancelledFileFailsOnceWitness ==
  /\ cCanceled /\ cResultClosed /\ faults = 0
  /\ files = <<1, 2>>
  /\ resultsSent = <<1, 0>>
  /\ progress.FailedFiles = 1
  /\ DOMAIN dstContent = {1}
  /\ dstContent[1] = <<1, 2>>

\* the bytes of file f that are in its destination file
Transferred(f) == IF f \in DOMAIN dstContent THEN Len(dstContent[f]) ELSE 0

\* C26: the Size of every CopyResult a worker has built, sends or has sent
\* and is counting is the number of bytes transferred to the destination
\* file of its file, whether the copy succeeded, failed or was cancelled.
CopyResultSizeIsTransferred ==
  \A s \in CopyWorkers :
     s.pc \in {"result", "count"} => s.size = Transferred(s.file)

(***************************************************************************)
(* One call of copySingleFile, copier.go 202-250, on arbitrary paths.       *)
(* A cleaned path is [abs, ups, comps]: rooted or not, the number of        *)
(* leading ".." components, and the names that follow.                      *)
(***************************************************************************)
Names == {"a", "b"}
RECURSIVE SeqsUpTo(_)
SeqsUpTo(n) ==
  IF n = 0 THEN {<< >>}
  ELSE SeqsUpTo(n - 1) \cup
       {Append(q, x) : q \in {r \in SeqsUpTo(n - 1) : Len(r) = n - 1}, x \in Names}
\* the paths a caller can pass: rooted or relative, without ".."
Paths == [abs : BOOLEAN, ups : {0}, comps : SeqsUpTo(MaxDepth)]

RECURSIVE CommonLen(_, _)
\* number of leading components two paths share
CommonLen(p, q) ==
  IF p = << >> \/ q = << >> \/ Head(p) # Head(q) THEN 0
  ELSE 1 + CommonLen(Tail(p), Tail(q))
\* filepath.Rel(base, targ): an error only when one path is rooted and the
\* other is not; otherwise one ".." for every component of base below the
\* common prefix, followed by the rest of targ
RelFails(base, targ) == base.abs # targ.abs
Rel(base, targ) ==
  LET k == CommonLen(base.comps, targ.comps)
  IN [ups |-> Len(base.comps) - k,
      rest |-> SubSeq(targ.comps, k + 1, Len(targ.comps))]
\* filepath.Join(dir, rel), which cleans the result: every ".." of rel
\* removes a component of dir; above "/" it is dropped, above a relative
\* directory it stays
Join(dir, rel) ==
  IF rel.ups <= Len(dir.comps)
    THEN [dir EXCEPT !.comps = SubSeq(@, 1, Len(@) - rel.ups) \o rel.rest]
    ELSE [abs |-> dir.abs,
          ups |-> IF dir.abs THEN 0 ELSE dir.ups + rel.ups - Len(dir.comps),
          comps |-> rel.rest]
\* filepath.Dir
Dir(p) == IF p.comps = << >> THEN p ELSE [p EXCEPT !.comps = SubSeq(@, 1, Len(@) - 1)]
\* path p is root or lies below it
Under(root, p) ==
  /\ p.abs = root.abs
  /\ p.ups = root.ups
  /\ Len(root.comps) <= Len(p.comps)
  /\ SubSeq(p.comps, 1, Len(root.comps)) = root.comps

\* a copier made by NewCopier(sourceDir, targetDir, ...) whose worker calls
\* copySingleFile(srcPath, buffer)
SingleInit ==
  /\ tree = TreeNoFiles
  /\ ScanIdle
  /\ CopyIdle
  /\ faults = 0
  /\ UiIdle
  /\ sample = SampleIdle
  /\ \E s, t, f \in Paths :
       single = [pc |-> "rel", sourceDir |-> s, targetDir |-> t, srcPath |-> f,
                 dstPath |-> f, made |-> {}, written |-> {}, ok |-> FALSE,
                 cause |-> ""]

\* copySingleFile returns a failed CopyResult
SingleFailed(cause) == [single EXCEPT !.pc = "done", !.ok = FALSE, !.cause = cause]

\* lines 204-214: relPath, dstPath and dstDir
SingleRel ==
  /\ single.pc = "rel"
  /\ single' =
       IF RelFails(single.sourceDir, single.srcPath)
         THEN SingleFailed("rel")
         ELSE [single EXCEPT
                 !.pc = "mkdir",
                 !.dstPath = Join(single.targetDir, Rel(single.sourceDir, single.srcPath))]
  /\ UNCHANGED <<tree, scanVars, copyVars, uiVars, sample>>

\* lines 217-223: os.MkdirAll(dstDir)
SingleMkdirAll ==
  /\ single.pc = "mkdir"
  /\ \/ single' = SingleFailed("mkdir")
     \/ single' = [single EXCEPT !.pc = "stat", !.made = {Dir(single.dstPath)}]
  /\ UNCHANGED <<tree, scanVars, copyVars, uiVars, sample>>

\* lines 226-233: os.Stat(srcPath)
SingleStat ==
  /\ single.pc = "stat"
  /\ \/ single' = SingleFailed("stat")
     \/ single' = [single EXCEPT !.pc = "copy"]
  /\ UNCHANGED <<tree, scanVars, copyVars, uiVars, sample>>

\* lines 236-249 and 253-285: copyFileContent opens the source, creates (or
\* truncates) dstPath and copies; the result is failed when a step failed
SingleCopy ==
  /\ single.pc = "copy"
  /\ \/ single' = SingleFailed("open")
     \/ single' = [SingleFailed("io") EXCEPT !.written = {single.dstPath}]
     \/ single' = [single EXCEPT !.pc = "done", !.ok = TRUE,
                                 !.written = {single.dstPath}]
  /\ UNCHANGED <<tree, scanVars, copyVars, uiVars, sample>>

SingleNext == SingleRel \/ SingleMkdirAll \/ SingleStat \/ SingleCopy

SingleSpec == SingleInit /\ [][SingleNext]_vars

\* C27: a call of copySingleFile on a path that is not under the source root
\* goes no further than the relative-path step: it ends there with a failed
\* result, creates no directory and writes no file.
SingleOutsideRootFailsAtRel ==
  (single.pc # "idle" /\ ~Under(single.sourceDir, single.srcPath))
    => /\ single.pc \in {"rel", "done"}
       /\ single.pc = "done" => (~single.ok /\ single.cause = "rel")
       /\ single.made = {}
       /\ single.written = {}

(***************************************************************************)
(* The command-line program, part_001: CopyManager.StartCopy starts the     *)
(* readers of the streams and copyFiles, then runs the scan.  It never      *)
(* calls Cancel.                                                            *)
(***************************************************************************)
\* a panic of any goroutine ends the process
CliAlive == ~spanicked /\ ~cpanicked

\* lines 35-44 and 46-65: a Scanner and a Copier are made, ScanDirectory is
\* called; the file system fails no operation of the copy
CliInit ==
  /\ tree \in {TreeRace, TreeNoFiles}
  /\ ScanStarted
  /\ CopyIdle
  /\ faults = MaxFaults
  /\ UiIdle
  /\ single = SingleIdle
  /\ sample = SampleIdle

\* lines 123-126: for file := range cm.scanner.Files()
CliCollect ==
  /\ CliAlive
  /\ cmainPc = "off"
  /\ sFilesCh # << >>
  /\ sFilesCh' = Tail(sFilesCh)
  /\ mfiles' = Append(mfiles, Head(sFilesCh).id)
  /\ UNCHANGED <<tree, single, sample, concurrency, dirBuf, collectSize, copyVars, uiPage,
                 uiScanning, uiCopying, uiWatch, workers, sQueue, sMain, sMon,
                 sProgressCh, sErrCh, sClosed, sHist, sCanceled, totalFiles,
                 spanicked>>

\* CliStartCopy leaving the range of lines 123-126 when the file stream is
\* empty, whether it is closed or not
CliStartCopyEarly(w) ==
  /\ CliAlive
  /\ cmainPc = "off"
  /\ sFilesCh = << >>
  /\ files' = mfiles
  /\ workerCount' = w
  /\ progress' = [progress EXCEPT
                    !.TotalFiles = Len(mfiles),
                    !.TotalSize = IF collectSize
                                    THEN SumSizes(tree, Range(mfiles)) ELSE 0]
  /\ cmainPc' = "start"
  /\ UNCHANGED <<tree, single, sample, scanVars, uiVars, cErrCh, cCanceled, cQueue, copiers,
                 feedIdx, cdone, cMon, cChans, cClosed, cpanicked, cDisk, cHist>>

\* lines 123, 129-132: the range ends when the file stream is closed and
\* drained; SetTotal and CopyFilesParallel are called on the Copier that
\* tuneCopierForSystem made with w workers
CliStartCopy(w) ==
  /\ CliAlive
  /\ cmainPc = "off"
  /\ sFilesClosed /\ sFilesCh = << >>
  /\ files' = mfiles
  /\ workerCount' = w
  /\ progress' = [progress EXCEPT
                    !.TotalFiles = Len(mfiles),
                    !.TotalSize = IF collectSize
                                    THEN SumSizes(tree, Range(mfiles)) ELSE 0]
  /\ cmainPc' = "start"
  /\ UNCHANGED <<tree, single, sample, scanVars, uiVars, cErrCh, cCanceled, cQueue, copiers,
                 feedIdx, cdone, cMon, cChans, cClosed, cpanicked, cDisk, cHist>>

\* lines 135-139: the results are read after CopyFilesParallel returned
CliReadResult ==
  /\ CliAlive
  /\ cmainPc = "end"
  /\ CopyConsumeResult

CliNext ==
  \/ \E s \in ScanWorkers : CliAlive /\ ScanWorkerRecv(s)
  \/ \E s \in ScanWorkers : CliAlive /\ ScanWorkerList(s)
  \/ \E s \in ScanWorkers : CliAlive /\ ScanWorkerEntry(s)
  \/ \E s \in ScanWorkers : CliAlive /\ ScanWorkerEmit(s)
  \/ \E s \in ScanWorkers : CliAlive /\ ScanWorkerSend(s)
  \/ \E s \in ScanWorkers : CliAlive /\ ScanWorkerPush(s)
  \/ CliAlive /\ ScanCloser
  \/ CliAlive /\ ScanMainStep
  \/ CliAlive /\ ScanMonitorTick
  \/ CliAlive /\ ScanMonitorSend
  \/ CliAlive /\ ScanMonitorExit
  \/ CliAlive /\ ScanConsumeProgress
  \/ CliAlive /\ ScanConsumeError
  \/ CliCollect
  \/ \E w \in 1..MaxCopyWorkers : CliStartCopy(w)
  \/ CliAlive /\ CopyMainStep
  \/ \E s \in CopyWorkers : CliAlive /\ CopyWorkerRecv(s)
  \/ \E s \in CopyWorkers : CliAlive /\ CopyWorkerBegin(s)
  \/ \E s \in CopyWorkers : CliAlive /\ CopyWorkerCheck(s)
  \/ \E s \in CopyWorkers : CliAlive /\ CopyWorkerChunk(s)
  \/ \E s \in CopyWorkers : CliAlive /\ CopyWorkerResult(s)
  \/ \E s \in CopyWorkers : CliAlive /\ CopyWorkerCount(s)
  \/ CliAlive /\ CopyMonitorTick
  \/ CliAlive /\ CopyMonitorSend
  \/ CliAlive /\ CopyMonitorExit
  \/ CliAlive /\ CopyConsumeProgress
  \/ CliReadResult

CliSpec == CliInit /\ [][CliNext]_vars

\* number of FileInfo the scanner has sent for file f
Emitted(f) == emitted[F(f)]
\* number of places of list l that hold f
Occurs(l, f) == Cardinality({i \in 1..Len(l) : l[i] = f})

\* C28: while the scanner's file stream is open or holds a FileInfo, the
\* copy engine has not been started, has no worker and nothing exists under
\* the target; the collected list grows only by the path at the head of the
\* file stream, so it is the delivery order; and once the copy is started
\* the list handed over is the collected list, it holds every file as many
\* times as the scanner emitted it, and TotalFiles is its length.
CliScanCollectCopy ==
  [][/\ (~sFilesClosed' \/ sFilesCh' # << >>)
          => /\ cmainPc' = "off"
             /\ copiers' = EmptyBag
             /\ dstDirs' = {} /\ dstContent' = << >>
     /\ mfiles' # mfiles
          => /\ cmainPc = "off"
             /\ sFilesCh # << >>
             /\ mfiles' = Append(mfiles, Head(sFilesCh).id)
             /\ sFilesCh' = Tail(sFilesCh)
     /\ cmainPc' # "off"
          => /\ files' = mfiles'
             /\ \A f \in FilesOf(tree) : Occurs(files', f) = Emitted(f)'
             /\ progress'.TotalFiles = Len(files')]_vars

\* C28 witness: s.txt was delivered ahead of r.txt, the copy was started on
\* the list in that order and both files are written under the target.
CliScanCollectCopyWitness ==
  /\ sFilesClosed
  /\ cmainPc = "wait"
  /\ files = <<2, 1>>
  /\ progress.TotalFiles = 2
  /\ progress.CompletedFiles = 1
  /\ dstContent = <<tree.content[1], tree.content[2]>>

(***************************************************************************)
(* The figures of one CopyProgress snapshot, copier.go 301-325 and          *)
(* 331-347.  Time since startTime is counted in units of 1/UnitsPerSecond   *)
(* second; Speed is the exact quotient [num, den] in files per second;      *)
(* RemainingTime is in seconds (the code multiplies whole seconds by        *)
(* time.Second, an int64 of nanoseconds that the times of this model are    *)
(* far from overflowing).                                                   *)
(***************************************************************************)
UnitsPerSecond == 2
\* Copier.progress as the workers leave it: Speed, ElapsedTime and
\* RemainingTime of the shared struct are written by no statement
Counters ==
  {[ZeroProgress EXCEPT !.CompletedFiles = c, !.FailedFiles = f, !.TotalFiles = t] :
     t \in 0..MaxTotal, c \in 0..MaxTotal, f \in 0..MaxTotal}
SampleInputs == {p \in Counters : p.CompletedFiles + p.FailedFiles <= p.TotalFiles}
ZeroSnap ==
  [CompletedFiles |-> 0, FailedFiles |-> 0, TotalFiles |-> 0,
   ElapsedTime |-> 0, Speed |-> [num |-> 0, den |-> 1], RemainingTime |-> 0]

\* the sampler's ticker fired, or the run reached sendFinalProgress
SampleInit ==
  /\ tree = TreeNoFiles
  /\ ScanIdle
  /\ CopyIdle
  /\ faults = 0
  /\ UiIdle
  /\ single = SingleIdle
  /\ \E p \in SampleInputs, e \in 0..MaxElapsed, k \in {"tick", "final"} :
       sample = [pc |-> k, progress |-> p, elapsed |-> e, snap |-> ZeroSnap]

\* lines 301-307, 333-338: progress := c.progress; progress.ElapsedTime = elapsed
Copied(p, e) ==
  [ZeroSnap EXCEPT !.CompletedFiles = p.CompletedFiles,
                   !.FailedFiles = p.FailedFiles,
                   !.TotalFiles = p.TotalFiles,
                   !.ElapsedTime = e]
\* lines 310-312, 340-342: Speed = CompletedFiles / elapsed.Seconds()
WithSpeed(q) ==
  IF q.ElapsedTime > 0
    THEN [q EXCEPT !.Speed = [num |-> q.CompletedFiles * UnitsPerSecond,
                             den |-> q.ElapsedTime]]
    ELSE q
\* WithRemaining extrapolating over all the files of the run instead of the
\* files that remain
WithRemainingOfTotal(q) ==
  IF q.Speed.num > 0 /\ q.TotalFiles > q.CompletedFiles
    THEN [q EXCEPT !.RemainingTime = (q.TotalFiles * q.Speed.den) \div q.Speed.num]
    ELSE q

\* lines 315-319: time.Duration(remainingSeconds) drops the fraction
WithRemaining(q) ==
  IF q.Speed.num > 0 /\ q.TotalFiles > q.CompletedFiles
    THEN LET remainingFiles == q.TotalFiles - q.CompletedFiles
         IN [q EXCEPT !.RemainingTime = (remainingFiles * q.Speed.den) \div q.Speed.num]
    ELSE q

\* lines 300-319: case <-ticker.C up to the send
SampleTick ==
  /\ sample.pc = "tick"
  /\ sample' = [sample EXCEPT
                  !.pc = "send",
                  !.snap = WithRemaining(WithSpeed(Copied(sample.progress, sample.elapsed)))]
  /\ UNCHANGED <<tree, scanVars, copyVars, uiVars, single>>

\* lines 331-342: sendFinalProgress up to the send
SampleFinal ==
  /\ sample.pc = "final"
  /\ sample' = [sample EXCEPT
                  !.pc = "sendFinal",
                  !.snap = WithSpeed(Copied(sample.progress, sample.elapsed))]
  /\ UNCHANGED <<tree, scanVars, copyVars, uiVars, single>>

\* lines 322-325, 343-346: the snapshot is sent, or dropped on a full stream
SampleSend ==
  /\ sample.pc \in {"send", "sendFinal"}
  /\ \E d \in {"sent", "dropped"} :
       sample' = [sample EXCEPT !.pc = IF sample.pc = "send" THEN d ELSE d \o "Final"]
  /\ UNCHANGED <<tree, scanVars, copyVars, uiVars, single>>

SampleNext == SampleTick \/ SampleFinal \/ SampleSend

SampleSpec == SampleInit /\ [][SampleNext]_vars

\* C29: a periodic snapshot has RemainingTime 0 when no file is completed,
\* when no time has passed and when CompletedFiles = TotalFiles; otherwise
\* it is (TotalFiles - CompletedFiles) / (CompletedFiles / elapsed) with the
\* fraction of a second dropped.  The final snapshot has RemainingTime 0.
SampleRemainingTime ==
  LET q == sample.snap
      c == q.CompletedFiles
      t == q.TotalFiles
      e == sample.elapsed
  IN /\ sample.pc \in {"send", "sent", "dropped"} =>
          q.RemainingTime =
            IF c = 0 \/ e = 0 \/ c = t THEN 0
            ELSE ((t - c) * e) \div (c * UnitsPerSecond)
     /\ sample.pc \in {"sendFinal", "sentFinal", "droppedFinal"} =>
          q.RemainingTime = 0

\* C29 witness: a periodic snapshot sent after 2.5 s with one file of two
\* completed: one file remains at 0.4 files per second, 2.5 s, cut to 2 s.
SampleRemainingTimeWitness ==
  /\ sample.pc = "sent"
  /\ sample.elapsed = 5
  /\ sample.snap.CompletedFiles = 1
  /\ sample.snap.TotalFiles = 2
  /\ sample.snap.RemainingTime = 2

\* C30: once Close has closed a progress stream, the sampler of that run is
\* neither in its select nor about to send (it has returned, or was never
\* started), so no send reaches the closed stream and no goroutine panics.
NoSendOnClosedProgress ==
  /\ sProgressClosed => smonPc \notin {"select", "send"}
  /\ cProgressClosed => cmonPc \notin {"select", "send"}
  /\ ~spanicked
  /\ ~cpanicked

RECURSIVE EmittedUpTo(_)
\* number of FileInfo sent on the file stream for the files 1..n
EmittedUpTo(n) == IF n = 0 THEN 0 ELSE Emitted(n) + EmittedUpTo(n - 1)

\* C31: once the scanner has closed its streams, the counter totalFiles
\* equals the number of FileInfo sent on the file stream, whether or not
\* the scan was cancelled.
ScanCounterIsFilesSent ==
  ScanStreamsClosed => totalFiles = EmittedUpTo(Len(tree.content))

\* the destination file of f exists and holds the whole source content
Complete(f) == f \in DOMAIN dstContent /\ dstContent[f] = tree.content[f]

\* C32: a CopyResult with Success = true, whether a worker is about to send
\* it, is counting it or it is on the result stream, belongs to a file
\* whose destination holds the whole source content; and CompletedFiles
\* never exceeds the number of such files that have a result.
CopySuccessMeansComplete ==
  /\ \A s \in CopyWorkers :
       (s.pc \in {"result", "count"} /\ s.ok) => Complete(s.file)
  /\ \A i \in 1..Len(cResultCh) :
       cResultCh[i].Success => Complete(cResultCh[i].FilePath)
  /\ progress.CompletedFiles
       <= Cardinality({f \in Range(files) : Complete(f) /\ resultsSent[f] = 1})

\* C32 witness: Cancel was called while a worker was in the chunk loop of
\* the 3-byte file with the last chunk written; the worker read io.EOF and
\* its successful result is counted.
CopySuccessMeansCompleteWitness ==
  /\ cCanceled /\ ~cpanicked
  /\ tree = TreeExample
  /\ progress.CompletedFiles = 1
  /\ resultsSent[1] = 1
  /\ okSent = 1
  /\ Complete(1)
  /\ SizeOf(tree, 1) = 3
  /\ progress.FailedFiles = 1

\* C33: a call of copySingleFile on a file under the source root never
\* creates or truncates that file itself, whatever the target root is, so
\* the source file keeps its content.
SingleSourceUntouched ==
  (single.pc # "idle" /\ Under(single.sourceDir, single.srcPath))
    => single.srcPath \notin single.written

\* number of CopyResults the caller has taken from the result stream
ResultsTaken == ResultsSent - Len(cResultCh)

\* C34: a worker passes from its send to the counters only by appending its
\* result to a result stream that had room; the stream loses a value only
\* at its head, to the caller; the counters change only in the step of a
\* worker that has sent; and in a run in which Cancel was not called and
\* whose list is longer than the result buffer, the result stream is closed
\* only after the caller has taken the results the buffer cannot hold.
CopyResultsNeverDropped ==
  [][/\ (copiers' # copiers
         /\ NumAt(copiers', {"count"}) > NumAt(copiers, {"count"}))
          => /\ Len(cResultCh) < ResultBuf
             /\ Len(cResultCh') = Len(cResultCh) + 1
             /\ SubSeq(cResultCh', 1, Len(cResultCh)) = cResultCh
     /\ Len(cResultCh') < Len(cResultCh)
          => /\ cResultCh' = Tail(cResultCh)
             /\ copiers' = copiers
     /\ progress'.CompletedFiles + progress'.FailedFiles
          # progress.CompletedFiles + progress.FailedFiles
          => NumAt(copiers', {"count"}) = NumAt(copiers, {"count"}) - 1
     /\ (cResultClosed' /\ ~cCanceled' /\ Len(files) > ResultBuf)
          => ResultsTaken' >= Len(files) - ResultBuf]_vars

\* C34 witness: a run over two files that was not cancelled has closed its
\* result stream; the caller took the first result and the second is still
\* in the buffer.
CopyResultsNeverDroppedWitness ==
  /\ cResultClosed /\ ~cCanceled
  /\ Len(files) = 2
  /\ ResultsSent = 2
  /\ Len(cResultCh) = 1

\* C34 as stated: whenever the list is longer than the result buffer, the
\* result stream is closed only after the caller has taken a result.
CopyClosedOnlyIfDrained ==
  (cResultClosed /\ Len(files) > ResultBuf) => ResultsTaken >= 1

\* every goroutine of the command-line program that can run is eventually
\* run: the workers, the two runs, the samplers' sends and the four readers
\* started by StartCopy
CliFairness ==
  /\ WF_vars(\E s \in ScanWorkers : CliAlive /\ ScanWorkerRecv(s))
  /\ WF_vars(\E s \in ScanWorkers : CliAlive /\ ScanWorkerList(s))
  /\ WF_vars(\E s \in ScanWorkers : CliAlive /\ ScanWorkerEntry(s))
  /\ WF_vars(\E s \in ScanWorkers : CliAlive /\ ScanWorkerEmit(s))
  /\ WF_vars(\E s \in ScanWorkers : CliAlive /\ ScanWorkerSend(s))
  /\ WF_vars(\E s \in ScanWorkers : CliAlive /\ ScanWorkerPush(s))
  /\ WF_vars(CliAlive /\ ScanCloser)
  /\ WF_vars(CliAlive /\ ScanMainStep)
  /\ WF_vars(CliAlive /\ ScanMonitorSend)
  /\ WF_vars(CliAlive /\ ScanConsumeProgress)
  /\ WF_vars(CliAlive /\ ScanConsumeError)
  /\ WF_vars(CliCollect)
  /\ WF_vars(\E w \in 1..MaxCopyWorkers : CliStartCopy(w))
  /\ WF_vars(CliAlive /\ CopyMainStep)
  /\ WF_vars(\E s \in CopyWorkers : CliAlive /\ CopyWorkerRecv(s))
  /\ WF_vars(\E s \in CopyWorkers : CliAlive /\ CopyWorkerBegin(s))
  /\ WF_vars(\E s \in CopyWorkers : CliAlive /\ CopyWorkerCheck(s))
  /\ WF_vars(\E s \in CopyWorkers : CliAlive /\ CopyWorkerChunk(s))
  /\ WF_vars(\E s \in CopyWorkers : CliAlive /\ CopyWorkerResult(s))
  /\ WF_vars(\E s \in CopyWorkers : CliAlive /\ CopyWorkerCount(s))
  /\ WF_vars(CliAlive /\ CopyMonitorSend)
  /\ WF_vars(CliAlive /\ CopyConsumeProgress)
  /\ WF_vars(CliReadResult)

FairCliSpec == CliSpec /\ CliFairness

\* cm.wg.Wait() of StartCopy returns: ScanDirectory and CopyFilesParallel
\* have returned and every reader has drained its stream to its closure
CliReturned ==
  /\ ScanStreamsClosed
  /\ sProgressCh = << >> /\ sErrCh = << >> /\ sFilesCh = << >>
  /\ cmainPc = "end"
  /\ cProgressCh = << >> /\ cResultCh = << >>

====
